---- MODULE Spec2Model ----
(***************************************************************************)
(* ZenTao gateway client (src/src/zentao.js): credential cache, generic    *)
(* call, list-my-bugs and the batch resolve loop, as a state machine.      *)
(* Spec runs getToken and batchResolveMyBugs for one caller, ConcSpec      *)
(* getToken and call for two interleaved callers, OpsSpec the single       *)
(* operations (call, callWithRetry, getMyBugs, getBugDetail, resolveBug,   *)
(* closeBug, verifyBug, commentBug) for one caller.  TransportSpec runs    *)
(* callWithRetry against a flaky gateway, ExchangeSpec call alone with the *)
(* fairness the timer gives, UrlSpec applies buildUrl and the login URL to *)
(* bounded inputs, PathSpec the path templates of the bug operations,      *)
(* ToolSpec the get_token tool of the server to bounded tokens and         *)
(* RouterSpec the call-tool handler of the server (src/unnamed/part_001)   *)
(* over the client.                                                        *)
(*                                                                         *)
(* Strings that the code inspects (paths) are sequences of tokens: "/" is  *)
(* a token, so are "{id}", "bugs", "http:" ...  Optional values are        *)
(* sequences of length at most one: <<>> is undefined / null / NaN and     *)
(* <<v>> is the value v.                                                   *)
(***************************************************************************)
EXTENDS Integers, Sequences, FiniteSets, TLC

VARIABLES
  cachedToken,      \* zentao.js:36  "" when no token is cached
  cachedAt,         \* zentao.js:37  0 when never timestamped
  now,              \* Date.now()
  auth,             \* config.auth: [account, password]
  defaultProductId, \* config.defaultProductId, optional
  task,             \* per logical task: operation, position, locals, result
  inflight          \* HTTP requests dispatched and not yet completed

vars == <<cachedToken, cachedAt, now, auth, defaultProductId, task, inflight>>

----------------------------------------------------------------------------
(* Bounds of the model *)

MaxBugs == 3        \* longest list the upstream answers with
MaxTime == 3        \* last clock value
MaxRetries == 1     \* largest retries given to callWithRetry
MaxRecords == 5     \* longest list the upstream answers getMyBugs with
MaxBodyLen == 2002  \* longest response text, in characters
MaxPathLen == 4     \* longest path given to buildUrl, in pieces
MaxTokenLen == 11   \* longest token the get_token tool is given, in characters

Tasks == {"t1"}

----------------------------------------------------------------------------
(* Configuration (immutable after construction) *)

tokenTtlMs == 1

baseUrl == <<"https:", "/", "/", "host">>
apiPrefix == <<"/", "api.php", "/", "v1">>

----------------------------------------------------------------------------
(* Optional values and strings *)

Undefined == <<>>
Some(v) == <<v>>
IsDefined(o) == Len(o) > 0

Min(a, b) == IF a <= b THEN a ELSE b
Max(a, b) == IF a >= b THEN a ELSE b

StartsWith(s, tok) == Len(s) > 0 /\ s[1] = tok
Includes(s, tok) == \E i \in 1..Len(s) : s[i] = tok
\* String.prototype.replace with a string pattern: the first occurrence only
ReplaceFirstOnly(s, tok, r) ==
  [i \in 1..Len(s) |-> IF s[i] = tok /\ (\A j \in 1..(i - 1) : s[j] # tok) THEN r ELSE s[i]]

ReplaceAll(s, tok, r) == [i \in 1..Len(s) |-> IF s[i] = tok THEN r ELSE s[i]]

RECURSIVE StripTrailingSlashes(_)
StripTrailingSlashes(s) ==
  IF Len(s) > 0 /\ s[Len(s)] = "/"
  THEN StripTrailingSlashes(SubSeq(s, 1, Len(s) - 1))
  ELSE s

\* slice() without its end: nothing is cut off
SliceAll(s, n) == s

\* Array.prototype.slice(0, n) for n >= 0
Slice(s, n) == SubSeq(s, 1, Min(n, Len(s)))

\* String.prototype.slice(-n) for n > 0: the last n characters, or all of them
SliceLast(s, n) == SubSeq(s, Max(1, Len(s) - n + 1), Len(s))

\* String(value || "").trim().toLowerCase() over the strings of the model
normalizeString(value) ==
  CASE value = "Active" -> "active"
    [] value = " active " -> "active"
    [] value = "ME" -> "me"
    [] value = " PASS " -> "pass"
    [] value = "Fail" -> "fail"
    [] value = " " -> ""
    [] OTHER -> value

\* String(value || "").trim() over the strings of the model
Trim(value) ==
  CASE value = " A " -> "A"
    [] value = " B " -> "B"
    [] value = " " -> ""
    [] OTHER -> value

\* Number(value) for an optional integer: NaN is <<>>
Number(o) == o

normalizePositiveInt(value) ==
  LET parsed == Number(value)
  IN IF IsDefined(parsed) /\ parsed[1] > 0 THEN Some(parsed[1]) ELSE Undefined

----------------------------------------------------------------------------
(* Errors *)

Err(type, status, needPid) == [type |-> type, status |-> status, needPid |-> needPid]

ErrPathRequired == Err("PathRequired", 0, FALSE)
ErrPathAbsolute == Err("PathAbsolute", 0, FALSE)
ErrMissingCredentials == Err("MissingCredentials", 0, FALSE)
ErrTokenFieldMissing == Err("TokenFieldMissing", 0, FALSE)
ErrTimeout == Err("Timeout", 0, FALSE)
ErrInvalidBugId == Err("InvalidBugId", 0, FALSE)
ErrInvalidVerifyResult == Err("InvalidVerifyResult", 0, FALSE)
ErrEmptyComment == Err("EmptyComment", 0, FALSE)
\* throw lastErr when nothing was caught: the value thrown is undefined
ErrUndefined == Err("undefined", 0, FALSE)
\* fetch rejects: the connection failed
ErrNetwork == Err("Network", 0, FALSE)
ErrHttp(status, needPid) == Err("Http", status, needPid)
NoErr == Err("none", 0, FALSE)

----------------------------------------------------------------------------
(* URL / path resolver *)

\* only https:// counts as absolute
isAbsoluteHttpsUrl(value) ==
  /\ Len(value) >= 3
  /\ value[1] \in {"https:", "HTTPS:"}
  /\ value[2] = "/"
  /\ value[3] = "/"

\* /^https?:\/\//i
isProbablyAbsoluteUrl(value) ==
  /\ Len(value) >= 3
  /\ value[1] \in {"http:", "https:", "HTTP:", "HTTPS:"}
  /\ value[2] = "/"
  /\ value[3] = "/"

\* the string is taken as it is
KeepAsGiven(s) == s

\* zentao.js:14-15  s.startsWith("/") ? s : `/${s}`
EnsureLeadingSlash(s) == IF StartsWith(s, "/") THEN s ELSE <<"/">> \o s

\* the piece that starts the query of a URL
QueryPiece == "?q=1"

\* the segments of a path that starts with "/": "" is the empty segment
RECURSIVE SegmentsOf(_)
SegmentsOf(p) ==
  IF p = <<>> THEN <<>>
  ELSE IF Len(p) >= 2 /\ p[2] # "/"
       THEN <<p[2]>> \o SegmentsOf(SubSeq(p, 3, Len(p)))
       ELSE <<"">> \o SegmentsOf(Tail(p))

\* the URL parser walks the segments: ".." drops the segment before it, "."
\* is skipped, and either leaves an empty segment when it comes last
RECURSIVE ResolveDots(_, _, _)
ResolveDots(segs, i, out) ==
  IF i > Len(segs) THEN out
  ELSE LET last == i = Len(segs)
           shorter == IF out = <<>> THEN out ELSE SubSeq(out, 1, Len(out) - 1)
           next == CASE segs[i] = ".." -> IF last THEN Append(shorter, "") ELSE shorter
                     [] segs[i] = "." -> IF last THEN Append(out, "") ELSE out
                     [] OTHER -> Append(out, segs[i])
       IN ResolveDots(segs, i + 1, next)

RECURSIVE JoinSegments(_)
JoinSegments(segs) ==
  IF segs = <<>> THEN <<>>
  ELSE <<"/">> \o (IF Head(segs) = "" THEN <<>> ELSE <<Head(segs)>>)
         \o JoinSegments(Tail(segs))

\* the index of the first piece of s that starts the query, 0 when none does
RECURSIVE QueryAt(_, _)
QueryAt(s, i) ==
  IF i > Len(s) THEN 0 ELSE IF s[i] = QueryPiece THEN i ELSE QueryAt(s, i + 1)

\* zentao.js:16  new URL(text) for scheme://host followed by a path: origin,
\* path component and query of the parsed URL, and the URL written out again
NewURL(text) ==
  LET origin == SubSeq(text, 1, 4)
      rest == SubSeq(text, 5, Len(text))
      q == QueryAt(rest, 1)
      pathPart == IF q = 0 THEN rest ELSE SubSeq(rest, 1, q - 1)
      search == IF q = 0 THEN <<>> ELSE SubSeq(rest, q, Len(rest))
      resolved == JoinSegments(ResolveDots(SegmentsOf(pathPart), 1, <<>>))
      pathname == IF resolved = <<>> THEN <<"/">> ELSE resolved
  IN [origin |-> origin, pathname |-> pathname, search |-> search,
      href |-> origin \o pathname \o search]

NoURL == [origin |-> <<>>, pathname |-> <<>>, search |-> <<>>, href |-> <<>>]

\* the path p up to its last "/", the "/" included
DirectoryOf(p) ==
  LET slashes == {i \in DOMAIN p : p[i] = "/"}
  IN IF slashes = {} THEN <<"/">>
     ELSE SubSeq(p, 1, CHOOSE i \in slashes : \A j \in slashes : j <= i)

\* zentao.js:86  new URL(ref, base): an absolute ref is taken alone, a ref
\* that starts with "/" replaces the path of base, any other ref replaces
\* the last segment of the path of base
NewURLWithBase(ref, base) ==
  LET parsedBase == NewURL(base)
  IN IF isProbablyAbsoluteUrl(ref) THEN NewURL(ref)
     ELSE IF StartsWith(ref, "/") THEN NewURL(parsedBase.origin \o ref)
     ELSE NewURL(parsedBase.origin \o DirectoryOf(parsedBase.pathname) \o ref)

\* part_001:47  the token path when ZENTAO_TOKEN_PATH is not set
DefaultTokenPath(prefix) == prefix \o <<"/", "tokens">>

\* zentao.js:86  the URL getToken posts the credentials to
LoginUrlFrom(base, givenTokenPath) == NewURLWithBase(givenTokenPath, base)

\* a name or an argument is looked at before a tool is dispatched
ErrToolArgs == Err("ToolArgs", 0, FALSE)
ErrUnknownTool == Err("UnknownTool", 0, FALSE)

\* the empty path is not refused: it stands for the root of the API
buildUrlOfAnyRelativePath(base, givenPrefix, path) ==
  IF isProbablyAbsoluteUrl(path)
  THEN [err |-> ErrPathAbsolute, url |-> <<>>, parts |-> NoURL]
  ELSE LET url == NewURL(base \o EnsureLeadingSlash(givenPrefix) \o EnsureLeadingSlash(path))
       IN [err |-> NoErr, url |-> url.href, parts |-> url]

\* zentao.js:9-25  [err, url, parts]: err is NoErr when the URL was built, url
\* is the URL written out and parts the parsed URL
buildUrlFrom(base, givenPrefix, path) ==
  IF path = <<>> THEN [err |-> ErrPathRequired, url |-> <<>>, parts |-> NoURL]
  ELSE IF isProbablyAbsoluteUrl(path)
       THEN [err |-> ErrPathAbsolute, url |-> <<>>, parts |-> NoURL]
  ELSE LET normalizedPath == EnsureLeadingSlash(path)
           prefix == EnsureLeadingSlash(givenPrefix)
           url == NewURL(base \o prefix \o normalizedPath)
       IN [err |-> NoErr, url |-> url.href, parts |-> url]

\* buildUrl with the base URL and the prefix of the configuration (zentao.js:112)
buildUrl(path) == buildUrlFrom(baseUrl, apiPrefix, path)

DefaultBugsPath == <<"/", "bugs">>
DefaultResolvePath == <<"/", "bugs", "/", "{id}", "/", "resolve">>

ProductBugsPath(pid) == <<"/", "products", "/", ToString(pid), "/", "bugs">>

buildProductScopedBugsPath(productId, path) ==
  LET pid == normalizePositiveInt(productId)
      basePath == IF path = <<>> THEN DefaultBugsPath ELSE path
  IN IF ~IsDefined(pid) THEN basePath
     ELSE IF Includes(basePath, "{productId}")
          THEN ReplaceAll(basePath, "{productId}", ToString(pid[1]))
     ELSE IF basePath = DefaultBugsPath THEN ProductBugsPath(pid[1])
     ELSE basePath

\* id is a number here; the action is never blank at the call sites
buildBugTransitionPath(id, path, action) ==
  LET basePath == IF path = <<>>
                  THEN <<"/", "bugs", "/", "{id}", "/", action>>
                  ELSE path
  IN IF Includes(basePath, "{id}")
     THEN ReplaceAll(basePath, "{id}", ToString(id))
     ELSE StripTrailingSlashes(basePath) \o <<"/", ToString(id), "/", action>>

buildBugResolvePath(id, path) == buildBugTransitionPath(id, path, "resolve")

DefaultDetailPath == <<"/", "bugs", "/", "{id}">>
DefaultClosePath == <<"/", "bugs", "/", "{id}", "/", "close">>
DefaultActivatePath == <<"/", "bugs", "/", "{id}", "/", "activate">>
DefaultCommentPath == <<"/", "bugs", "/", "{id}", "/", "comment">>

\* zentao.js:253-261
buildBugDetailPath(id, path) ==
  LET basePath == IF path = <<>> THEN DefaultDetailPath ELSE path
  IN IF Includes(basePath, "{id}")
     THEN ReplaceAll(basePath, "{id}", ToString(id))
     ELSE StripTrailingSlashes(basePath) \o <<"/", ToString(id)>>

\* zentao.js:267-275
buildBugCommentPath(id, path) ==
  LET basePath == IF path = <<>> THEN DefaultCommentPath ELSE path
  IN IF Includes(basePath, "{id}")
     THEN ReplaceAll(basePath, "{id}", ToString(id))
     ELSE StripTrailingSlashes(basePath) \o <<"/", ToString(id), "/", "comment">>

\* nothing is replaced
PluralizeNothing(path) == path

\* zentao.js:521  primaryPath.replace(/\/comment$/, "/comments")
PluralizeCommentPath(path) ==
  IF Len(path) >= 2 /\ path[Len(path) - 1] = "/" /\ path[Len(path)] = "comment"
  THEN SubSeq(path, 1, Len(path) - 1) \o <<"comments">>
  ELSE path

----------------------------------------------------------------------------
(* Request bodies *)

\* the body of a request: the resolution code ("" when the body has none)
\* and the comment, a sequence of text pieces (<<>> when the body has none)
ReqBody(resolution, comment) == [resolution |-> resolution, comment |-> comment]
NoBody == ReqBody("", <<>>)

\* the two fixed texts of zentao.js:203 and zentao.js:206, in ASCII
SolutionLabel == "solution-label:"
GeneratedPrefix == "handled,resolution="

\* the comment is looked at first, the solution only when there is none
buildResolutionCommentFirst(solution, comment, resolution) ==
  LET normalizedComment == Trim(comment)
      normalizedSolution == Trim(solution)
  IN IF normalizedComment # "" THEN <<normalizedComment>>
     ELSE IF normalizedSolution # "" THEN <<SolutionLabel, normalizedSolution>>
     ELSE <<GeneratedPrefix, IF resolution = "" THEN "fixed" ELSE resolution>>

\* zentao.js:201-207
buildResolutionComment(solution, comment, resolution) ==
  LET normalizedSolution == Trim(solution)
      normalizedComment == Trim(comment)
  IN IF normalizedSolution # "" THEN <<SolutionLabel, normalizedSolution>>
     ELSE IF normalizedComment # "" THEN <<normalizedComment>>
     ELSE <<GeneratedPrefix, IF resolution = "" THEN "fixed" ELSE resolution>>

----------------------------------------------------------------------------
(* Token manager: pure parts *)

\* >= in place of >: a token of age ttl counts as expired
tokenExpiredAtTtl(tok, at, t) ==
  IF tok = "" THEN TRUE
  ELSE IF at = 0 THEN TRUE
  ELSE t - at >= tokenTtlMs

tokenExpired(tok, at, t) ==
  IF tok = "" THEN TRUE
  ELSE IF at = 0 THEN TRUE
  ELSE t - at > tokenTtlMs

\* the force flag is not looked at
UseCacheIgnoringForce(force, tok, at, t) == ~tokenExpired(tok, at, t)

\* zentao.js:78  the cached token is reused
UseCache(force, tok, at, t) == ~force /\ ~tokenExpired(tok, at, t)

\* && in place of ||: only the absence of both is refused
BothCredentialsMissing(a) == a.account = "" /\ a.password = ""

\* zentao.js:81
MissingCredentials(a) == a.account = "" \/ a.password = ""

\* A decoded response body.  token, dataToken and sessionToken are the three
\* places a token is looked for ("" when absent); bugs, dataBugs, data and
\* top are the places a list may sit in (<<>> when absent, else <<list>>).
\* bug, dataBug and dataObject are the places a single record may sit in:
\* the values of the fields bug and data.bug, and the value of data when it
\* is an object and no array; isNull tells the body that is no object at all
\* (null, a number).  A body built here has none of them.
Body(token, dataToken, sessionToken, bugs, dataBugs, data, top) ==
  [token |-> token, dataToken |-> dataToken, sessionToken |-> sessionToken,
   bugs |-> bugs, dataBugs |-> dataBugs, data |-> data, top |-> top,
   bug |-> <<>>, dataBug |-> <<>>, dataObject |-> <<>>, isNull |-> FALSE,
   projects |-> <<>>]

EmptyBody == Body("", "", "", <<>>, <<>>, <<>>, <<>>)

\* zentao.js:94-98  resp.data.token || resp.data.data.token || resp.data.data.session.token || ""
ExtractToken(data) ==
  IF data.token # "" THEN data.token
  ELSE IF data.dataToken # "" THEN data.dataToken
  ELSE IF data.sessionToken # "" THEN data.sessionToken
  ELSE ""

\* the test is missing: an empty token passes
TokenNeverMissing(token) == FALSE

\* zentao.js:100  if (!token)
TokenMissing(token) == token = ""

\* only the token is written: the timestamp keeps its old value
CacheTokenOnly(token, t) == [token |-> token, at |-> cachedAt]

\* zentao.js:105-106  the cache after a successful login at time t
CacheWrite(token, t) == [token |-> token, at |-> t]

----------------------------------------------------------------------------
(* Bug records and the response normalizer *)

\* A bug record as the upstream sends it.  The five places an identifier is
\* looked for are optional integers; title stands for the free-text fields
\* (title, severity, pri, steps) and is a sequence of words.
Bug(id, bugId, bugID, bug_id, nestedId, status, assignedTo, owner, title) ==
  [id |-> id, bugId |-> bugId, bugID |-> bugID, bug_id |-> bug_id,
   nestedId |-> nestedId, status |-> status, assignedTo |-> assignedTo,
   owner |-> owner, title |-> title]

\* a ?? b
Coalesce(a, b) == IF IsDefined(a) THEN a ELSE b

\* a || b: zero is skipped like an absent field
OrElse(a, b) == IF IsDefined(a) /\ a[1] # 0 THEN a ELSE b

\* || in place of ??
getBugIdWithOr(bug) ==
  LET id == Number(OrElse(bug.id, OrElse(bug.bugId,
                   OrElse(bug.bugID, OrElse(bug.bug_id, bug.nestedId)))))
  IN IF IsDefined(id) /\ id[1] > 0 THEN id ELSE Undefined

getBugId(bug) ==
  LET id == Number(Coalesce(bug.id, Coalesce(bug.bugId,
                   Coalesce(bug.bugID, Coalesce(bug.bug_id, bug.nestedId)))))
  IN IF IsDefined(id) /\ id[1] > 0 THEN id ELSE Undefined

\* assignedTo || ... || owner || ""
getBugAssignee(bug) == IF bug.assignedTo # "" THEN bug.assignedTo ELSE bug.owner

\* String.prototype.includes on word sequences: a contiguous run
IncludesSeq(text, k) ==
  \E i \in 1..(Len(text) - Len(k) + 1) : SubSeq(text, i, i + Len(k) - 1) = k

SearchableText(bug) ==
  LET part(x) == IF x = "" THEN <<>> ELSE <<normalizeString(x), " ">>
  IN bug.title \o (IF bug.title = <<>> THEN <<>> ELSE <<" ">>)
       \o part(bug.status) \o part(getBugAssignee(bug))

\* the assignee of the record is not looked at
matchesStatusAndKeyword(bug, f) ==
  LET normalizedStatus == normalizeString(f.status)
  IN /\ normalizedStatus # "" => normalizeString(bug.status) = normalizedStatus
     /\ f.keyword # <<>> => IncludesSeq(SearchableText(bug), f.keyword)

matchesBugFilters(bug, f) ==
  LET normalizedStatus == normalizeString(f.status)
      normalizedAssignee == normalizeString(f.assignee)
  IN /\ normalizedStatus # "" => normalizeString(bug.status) = normalizedStatus
     /\ normalizedAssignee # "" =>
          normalizeString(getBugAssignee(bug)) = normalizedAssignee
     /\ f.keyword # <<>> => IncludesSeq(SearchableText(bug), f.keyword)

RECURSIVE FilterBugs(_, _)
FilterBugs(bugs, f) ==
  IF bugs = <<>> THEN <<>>
  ELSE IF matchesBugFilters(Head(bugs), f)
       THEN <<Head(bugs)>> \o FilterBugs(Tail(bugs), f)
       ELSE FilterBugs(Tail(bugs), f)

parseBugsFromResponse(body) ==
  IF IsDefined(body.bugs) THEN body.bugs[1]
  ELSE IF IsDefined(body.dataBugs) THEN body.dataBugs[1]
  ELSE IF IsDefined(body.data) THEN body.data[1]
  ELSE IF IsDefined(body.top) THEN body.top[1]
  ELSE <<>>

\* A JSON value found where a single record is looked for: its type, as
\* typeof and Array.isArray tell it, and a name that tells the values of one
\* body apart.
JsonValue(type, name) == [type |-> type, name |-> name]

\* the decoded body itself
WholeBody == JsonValue("object", "body")

\* zentao.js:166-167  value && typeof value === "object": an array passes,
\* null and the absent value do not
IsObject(v) == IsDefined(v) /\ v[1].type \in {"object", "array"}

\* the body itself is always taken for the record
AlwaysTheBody(data, isText) == <<WholeBody>>

\* zentao.js:165-171  <<>> is null
parseBugDetailFromResponse(data, isText) ==
  IF IsObject(data.bug) THEN data.bug
  ELSE IF IsObject(data.dataBug) THEN data.dataBug
  ELSE IF IsDefined(data.dataObject) THEN data.dataObject
  ELSE IF ~isText /\ ~data.isNull /\ ~IsDefined(data.top) THEN <<WholeBody>>
  ELSE <<>>

\* zentao.js:550  Math.max(1, Math.min(Number(maxItems) || 50, 500))
SafeMaxItems(maxItems) ==
  LET n == Number(maxItems)
      given == IF IsDefined(n) /\ n[1] # 0 THEN n[1] ELSE 50
  IN Max(1, Min(given, 500))

----------------------------------------------------------------------------
(* HTTP transport *)

\* A header value, like a path, is a sequence of pieces; <<>> is the absent
\* header, read as "" (zentao.js:44).
JsonType == <<"application/json">>
JsonCharsetType == <<"application/json", ";", "charset=utf-8">>
HtmlType == <<"text/html">>
NoType == <<>>

\* A response text: its length in characters and the value JSON.parse gives
\* for it, <<>> when JSON.parse throws.
Text(len, parsed) == [len |-> len, parsed |-> parsed]

\* the serialized bodies of the upstream's ordinary answers count as short
ShortLen == 2

\* What the network hands back for one request: a response with a status, a
\* declared content type and a text, or nothing before the timer fires.
Response(status, needPid, contentType, text) ==
  [kind |-> "response", status |-> status, needPid |-> needPid,
   contentType |-> contentType, text |-> text]

\* a JSON response whose text parses to data
RawResponse(status, needPid, data) ==
  Response(status, needPid, JsonType, Text(ShortLen, <<data>>))

RawAbort ==
  [kind |-> "abort", status |-> 0, needPid |-> FALSE,
   contentType |-> NoType, text |-> Text(0, <<>>)]

\* fetch rejects before any response: the connection is refused or reset
RawNetworkError ==
  [kind |-> "neterror", status |-> 0, needPid |-> FALSE,
   contentType |-> NoType, text |-> Text(0, <<>>)]

\* no exchange has completed
NoResponse ==
  [kind |-> "none", status |-> 0, needPid |-> FALSE,
   contentType |-> NoType, text |-> Text(0, <<>>)]

\* zentao.js:47  the limit given to truncate
TruncateMax == 2000

\* the length of "...(truncated)"
MarkerLen == 14

\* zentao.js:66-69  what is left of a text: the characters kept, and whether
\* the marker follows them
truncate(s, max) ==
  IF s.len <= max THEN [kept |-> s.len, marker |-> FALSE]
  ELSE [kept |-> max, marker |-> TRUE]

NoExcerpt == [kept |-> 0, marker |-> FALSE]

\* A decoded body: the raw text (a string has none of the fields a body is
\* searched for), or the value the text parses to.
RawText(text) == [isText |-> TRUE, value |-> EmptyBody, len |-> text.len]

\* zentao.js:58-64
safeJsonParse(text) ==
  IF IsDefined(text.parsed)
  THEN [isText |-> FALSE, value |-> text.parsed[1], len |-> text.len]
  ELSE RawText(text)

\* every body is taken for JSON
DeclaresJsonAlways(contentType) == TRUE

\* zentao.js:45  contentType.includes("application/json")
DeclaresJson(contentType) == Includes(contentType, "application/json")

\* resp.ok: every status below 400 passes
ResponseOkBelow400(status) == status < 400

\* zentao.js:46  resp.ok
ResponseOk(status) == status \in 200..299

\* the timer is not seen to have fired
NeverTimedOut(raw) == FALSE

\* zentao.js:29, 42-43  the timer fired before the response was complete
TimedOut(raw) == raw.kind = "abort"

\* What an exchange settles with, the success envelope or the error thrown:
\* err is NoErr for the envelope; data holds the fields of the decoded body,
\* isText tells that the decoded body is the raw text, len is the length of
\* the text it was decoded from, excerpt what the message of the error holds
\* of the text.
Settled(err, status, decoded, excerpt) ==
  [err |-> err, status |-> status, data |-> decoded.value,
   isText |-> decoded.isText, len |-> decoded.len, excerpt |-> excerpt]

\* a failure that carries no response
Failure(err) == Settled(err, 0, [isText |-> FALSE, value |-> EmptyBody, len |-> 0], NoExcerpt)

\* zentao.js:39-56
fetchJson(raw) ==
  IF TimedOut(raw) THEN Failure(ErrTimeout)
  ELSE IF raw.kind = "neterror" THEN Failure(ErrNetwork)
  ELSE LET data == IF DeclaresJson(raw.contentType)
                   THEN safeJsonParse(raw.text)
                   ELSE RawText(raw.text)
       IN IF ~ResponseOk(raw.status)
          THEN Settled(ErrHttp(raw.status, raw.needPid), raw.status, data,
                       truncate(raw.text, TruncateMax))
          ELSE Settled(NoErr, raw.status, data, NoExcerpt)

\* the phrase is never recognized
NeedProductIdNeverSeen(err) == FALSE

\* zentao.js:196-199  the phrase "need product id" in the message or the body
isNeedProductIdError(err) == err.needPid

----------------------------------------------------------------------------
(* Tasks *)

NoOutcome ==
  [requested |-> 0, attempted |-> 0, resolved |-> 0, failed |-> 0,
   success |-> <<>>, errors |-> <<>>]

NoResult ==
  [kind |-> "none", err |-> NoErr, token |-> "", source |-> "", outcome |-> NoOutcome,
   status |-> 0, path |-> <<>>, action |-> "", comment |-> <<>>,
   list |-> [total |-> 0, matched |-> 0, bugs |-> <<>>],
   found |-> FALSE, bug |-> <<>>]

\* the arguments of the single-bug operations
NoOpArgs ==
  [id |-> Undefined, result |-> "", resolution |-> "", solution |-> "", comment |-> "",
   path |-> <<>>, closePath |-> <<>>, activatePath |-> <<>>]

NoArgs ==
  [status |-> "", keyword |-> <<>>, productId |-> Undefined, maxItems |-> Undefined,
   assignedTo |-> "", listPath |-> <<>>, resolvePath |-> <<>>, stopOnError |-> FALSE,
   resolution |-> "", solution |-> "", comment |-> ""]

IdleTask ==
  [op |-> "none", pc |-> "idle", args |-> NoArgs, opArgs |-> NoOpArgs,
   \* the cache and the clock as the caller of getToken found them
   entry |-> [tok |-> "", at |-> 0, now |-> 0, force |-> FALSE],
   ctx |-> [kind |-> "none", path |-> <<>>, cand |-> 0, id |-> 0],
   body |-> NoBody, retries |-> 0, attempt |-> 0,
   \* the response of the last exchange of call, and what call settled with
   resp |-> NoResponse,
   callRes |-> Failure(NoErr),
   tokenInfo |-> [token |-> "", source |-> ""],
   assignee |-> "", effectiveProductId |-> Undefined, primaryPath |-> <<>>,
   safeMaxItems |-> 0,
   listResult |-> [total |-> 0, matched |-> 0, bugs |-> <<>>],
   candidates |-> <<>>, idx |-> 0, success |-> <<>>, failed |-> <<>>,
   nGetMyBugs |-> 0, nResolveBug |-> 0,
   \* the attempts of call that callWithRetry has started
   nCall |-> 0,
   \* the requests whose timeout timer is armed
   timers |-> {},
   \* the tool call the operation was started for, if any
   tool |-> [name |-> <<>>, args |-> [id |-> Undefined, solution |-> "", comment |-> "",
                                     productId |-> Undefined, force |-> FALSE,
                                     keyword |-> ""]],
   reqs |-> <<>>, result |-> NoResult]

\* zentao.js:27-31, 40  the timer of request n is armed
createAbortSignal(tr, n) == [tr EXCEPT !.timers = @ \cup {n}]

\* the timer is left armed
cleanupForgotten(tr, n) == tr

\* zentao.js:30, 53-55  clearTimeout(timer) in the finally of fetchJson
cleanup(tr, n) == [tr EXCEPT !.timers = @ \ {n}]

\* fetchJson is entered for a request: the timer is armed and fetch is called
\* (zentao.js:40-42)
LogReq(tr, kind, token, url) ==
  [createAbortSignal(tr, Len(tr.reqs) + 1)
     EXCEPT !.reqs = Append(@, [kind |-> kind, ctx |-> tr.ctx.kind,
                                cand |-> tr.ctx.cand, id |-> tr.ctx.id,
                                path |-> tr.ctx.path, token |-> token,
                                url |-> url, body |-> tr.body])]

\* the requests a step has dispatched
Dispatched(t, old, new) == {<<t, n>> : n \in (Len(old.reqs) + 1)..Len(new.reqs)}

Returns(tr, result) == [tr EXCEPT !.pc = "done", !.result = result]
Throws(tr, err) == Returns(tr, [NoResult EXCEPT !.kind = "error", !.err = err])

----------------------------------------------------------------------------
(* call and getToken *)

\* the pending call settles: its caller resumes at "callRet"
CallSettles(tr, res) ==
  [tr EXCEPT !.pc = "callRet", !.callRes = res, !.resp = NoResponse]
CallFails(tr, err) == CallSettles(tr, Failure(err))

\* the Token header is left empty
CallDispatchAnonymous(tr, token) ==
  LET u == buildUrl(tr.ctx.path)
  IN IF u.err # NoErr THEN CallFails(tr, u.err)
     ELSE [LogReq(tr, "api", "", u.url) EXCEPT !.pc = "apiWait"]

\* zentao.js:112-121  call, after the token is known
CallDispatch(tr, token) ==
  LET u == buildUrl(tr.ctx.path)
  IN IF u.err # NoErr THEN CallFails(tr, u.err)
     ELSE [LogReq(tr, "api", token, u.url) EXCEPT !.pc = "apiWait"]

\* getToken returns: to the caller of the operation, or into call
TokenResolved(tr, token, source) ==
  IF tr.op = "getToken"
  THEN Returns(tr, [NoResult EXCEPT !.kind = "ok", !.token = token, !.source = source])
  ELSE CallDispatch([tr EXCEPT !.tokenInfo = [token |-> token, source |-> source]], token)

TokenFails(tr, err) ==
  IF tr.op = "getToken" THEN Throws(tr, err) ELSE CallFails(tr, err)

\* single-flight: a caller that finds a login in flight sends none of its own
GetTokenEnterSingleFlight(tr, force) ==
  IF UseCache(force, cachedToken, cachedAt, now)
  THEN TokenResolved(tr, cachedToken, "cache")
  ELSE IF MissingCredentials(auth)
       THEN TokenFails(tr, ErrMissingCredentials)
       ELSE IF \E r \in inflight : task[r[1]].reqs[r[2]].kind = "login"
            THEN [tr EXCEPT !.pc = "loginWait"]
            ELSE [LogReq(tr, "login", "", <<>>) EXCEPT !.pc = "loginWait"]

\* zentao.js:77-92  getToken up to its await
GetTokenEnter(tr, force) ==
  IF UseCache(force, cachedToken, cachedAt, now)
  THEN TokenResolved(tr, cachedToken, "cache")
  ELSE IF MissingCredentials(auth)
       THEN TokenFails(tr, ErrMissingCredentials)
       ELSE [LogReq(tr, "login", "", <<>>) EXCEPT !.pc = "loginWait"]

\* zentao.js:110-111  call({path}) up to its first await
EnterCall(tr, kind, path, cand, id) ==
  GetTokenEnter([tr EXCEPT !.ctx = [kind |-> kind, path |-> path,
                                     cand |-> cand, id |-> id]], FALSE)

----------------------------------------------------------------------------
(* getMyBugs, resolveBug and the batch loop: the synchronous parts *)

\* zentao.js:329-344  getMyBugs up to its first await
GetMyBugsEnter(tr, status, keyword, productId, path, assignedTo) ==
  LET given == normalizeString(assignedTo)
      assignee == IF given # "" THEN given ELSE normalizeString(auth.account)
      ownPid == normalizePositiveInt(productId)
      effectiveProductId ==
        IF IsDefined(ownPid) THEN ownPid ELSE normalizePositiveInt(defaultProductId)
      primaryPath == buildProductScopedBugsPath(effectiveProductId, path)
  IN EnterCall([tr EXCEPT !.assignee = assignee,
                          !.effectiveProductId = effectiveProductId,
                          !.primaryPath = primaryPath,
                          !.nGetMyBugs = @ + 1],
               "list", primaryPath, 0, 0)

\* the failure of the fallback request is intercepted like the first
UsesFallbackAgain(tr) ==
  /\ IsDefined(tr.effectiveProductId)
  /\ tr.primaryPath # ProductBugsPath(tr.effectiveProductId[1])
  /\ isNeedProductIdError(tr.callRes.err)

\* zentao.js:346-351  the list request is retried on the product-scoped path
UsesFallback(tr) ==
  /\ tr.ctx.kind = "list"
  /\ IsDefined(tr.effectiveProductId)
  /\ tr.primaryPath # ProductBugsPath(tr.effectiveProductId[1])
  /\ isNeedProductIdError(tr.callRes.err)

\* the failure of the list step is swallowed: the batch goes on with no candidate
ListFailureSwallowed(tr, err) == [tr EXCEPT !.pc = "loop", !.idx = 1]

\* zentao.js:354  throw err: the failure of the list step is the batch's
ListFails(tr, err) == Throws(tr, err)

\* zentao.js:358-370  the result of getMyBugs
ListResult(tr) ==
  LET bugs == parseBugsFromResponse(tr.callRes.data)
      filtered == FilterBugs(bugs, [status |-> tr.args.status,
                                    keyword |-> tr.args.keyword,
                                    assignee |-> tr.assignee])
  IN [total |-> Len(bugs), matched |-> Len(filtered), bugs |-> filtered]

\* zentao.js:381-397  the result of getBugDetail: found and bug
DetailResult(tr) ==
  LET bug == parseBugDetailFromResponse(tr.callRes.data, tr.callRes.isText)
  IN [found |-> IsDefined(bug), bug |-> bug]

\* zentao.js:587-594
BatchOutcome(tr) ==
  [requested |-> tr.listResult.matched,
   attempted |-> Len(tr.candidates),
   resolved |-> Len(tr.success),
   failed |-> Len(tr.failed),
   success |-> tr.success,
   errors |-> tr.failed]

BatchReturns(tr) ==
  Returns(tr, [NoResult EXCEPT !.kind = "ok", !.outcome = BatchOutcome(tr)])

\* the break is missing
NeverBreak(stopOnError) == FALSE

\* the break is unconditional
AlwaysBreak(stopOnError) == TRUE

\* zentao.js:569, 583  if (stopOnError) break
BreakOnError(stopOnError) == stopOnError

\* zentao.js:568-570, 582-583  a failure is recorded; the loop stops or goes on
RecordFailure(tr, id, error) ==
  LET tr1 == [tr EXCEPT !.failed = Append(@, [id |-> id, error |-> error])]
  IN IF BreakOnError(tr.args.stopOnError)
     THEN BatchReturns(tr1)
     ELSE [tr1 EXCEPT !.pc = "loop", !.idx = @ + 1]

\* zentao.js:580
RecordSuccess(tr, id, status) ==
  [tr EXCEPT !.success = Append(@, [id |-> id, status |-> status]),
             !.pc = "loop", !.idx = @ + 1]

\* any number passes, zero included
AnyNumberIsValid(id) == IsDefined(Number(id))

\* zentao.js:408, 433, 451, 375, 502  Number.isFinite(bugId) && bugId >= 1
ValidBugId(id) == IsDefined(Number(id)) /\ Number(id)[1] >= 1

\* an operation refuses its arguments before it calls anything
Refuses(tr, kind, err) ==
  CallFails([tr EXCEPT !.ctx = [kind |-> kind, path |-> <<>>, cand |-> 0, id |-> 0]], err)

\* zentao.js:400-420  resolveBug up to its await
ResolveBugEnterWith(tr, id, resolution, solution, comment, path, cand) ==
  LET tr1 == [tr EXCEPT !.nResolveBug = @ + 1]
  IN IF ~ValidBugId(id)
     THEN CallFails([tr1 EXCEPT !.ctx = [kind |-> "resolve", path |-> <<>>,
                                         cand |-> cand, id |-> 0]],
                    ErrInvalidBugId)
     ELSE LET resolvedValue == IF resolution = "" THEN "fixed" ELSE resolution
              resolvedComment == buildResolutionComment(solution, comment, resolvedValue)
          IN EnterCall([tr1 EXCEPT !.body = ReqBody(resolvedValue, resolvedComment)],
                       "resolve", buildBugResolvePath(id[1], path), cand, id[1])

\* zentao.js:573-579  resolveBug as the batch calls it, with the resolution,
\* solution and comment the batch was given
ResolveBugEnter(tr, id, path, cand) ==
  ResolveBugEnterWith(tr, Some(id), tr.args.resolution, tr.args.solution,
                      tr.args.comment, path, cand)

\* zentao.js:431-441, 449-459  closeBug and activateBug up to their await
TransitionEnter(tr, action, id, comment, path) ==
  IF ~ValidBugId(id)
  THEN Refuses(tr, action, ErrInvalidBugId)
  ELSE EnterCall([tr EXCEPT !.body = ReqBody("", IF comment = "" THEN <<>> ELSE <<comment>>)],
                 action, buildBugTransitionPath(id[1], path, action), 0, id[1])

CloseBugEnter(tr, id, comment, path) == TransitionEnter(tr, "close", id, comment, path)
ActivateBugEnter(tr, id, comment, path) == TransitionEnter(tr, "activate", id, comment, path)

\* the two branches are swapped
VerifyClosesOnFail(normalizedResult) == normalizedResult = "fail"

\* zentao.js:479  if (normalizedResult === "pass")
VerifyCloses(normalizedResult) == normalizedResult = "pass"

\* zentao.js:467-490  verifyBug up to its await
VerifyBugEnter(tr, id, result, comment, closePath, activatePath) ==
  LET normalizedResult == normalizeString(IF result = "" THEN "pass" ELSE result)
  IN IF normalizedResult # "pass" /\ normalizedResult # "fail"
     THEN Throws(tr, ErrInvalidVerifyResult)
     ELSE IF VerifyCloses(normalizedResult)
          THEN CloseBugEnter(tr, id, comment, closePath)
          ELSE ActivateBugEnter(tr, id, comment, activatePath)

\* zentao.js:373-380  getBugDetail up to its await
GetBugDetailEnter(tr, id, path) ==
  IF ~ValidBugId(id)
  THEN Refuses(tr, "detail", ErrInvalidBugId)
  ELSE EnterCall(tr, "detail", buildBugDetailPath(id[1], path), 0, id[1])

\* zentao.js:500-513  commentBug up to its await
CommentBugEnter(tr, id, comment, path) ==
  IF ~ValidBugId(id)
  THEN Refuses(tr, "comment", ErrInvalidBugId)
  ELSE LET text == Trim(comment)
           primaryPath == buildBugCommentPath(id[1], path)
       IN IF text = ""
          THEN Refuses(tr, "comment", ErrEmptyComment)
          ELSE EnterCall([tr EXCEPT !.primaryPath = primaryPath,
                                    !.body = ReqBody("", <<text>>)],
                         "comment", primaryPath, 0, id[1])

\* zentao.js:520-522  the comment request is retried on the pluralized path
CommentUsesFallback(tr) ==
  /\ tr.ctx.kind = "comment"
  /\ PluralizeCommentPath(tr.primaryPath) # tr.primaryPath
  /\ tr.callRes.err.status = 404

\* resolveBug is not awaited: the loop goes on while the request is in flight
ResolveNotAwaited(tr) ==
  IF tr.pc \in {"loginWait", "apiWait"}
  THEN [tr EXCEPT !.pc = "loop", !.idx = @ + 1]
  ELSE tr

\* zentao.js:573  await resolveBug(...): the loop is suspended until it settles
AwaitResolve(tr) == tr

----------------------------------------------------------------------------
(* Inputs *)

\* the token the upstream issues for a login answered at time t
TokenIssuedAt(t) == ToString(t)

AuthConfigs ==
  {[account |-> "me", password |-> "pw"],
   [account |-> "", password |-> "pw"],
   [account |-> "me", password |-> ""]}

\* a bug that carries its id as bugID and its assignee as owner, one whose id
\* is 0, and one that the status filter leaves out
bugB == Bug(<<>>, <<>>, <<2>>, <<>>, <<>>, "Active", "", "ME", <<>>)
bugZero == Bug(<<0>>, <<3>>, <<>>, <<>>, <<>>, "active", "me", "", <<"crash">>)
bugResolved == Bug(<<4>>, <<>>, <<>>, <<>>, <<>>, "resolved", "me", "", <<"crash">>)

BugPool == {bugB, bugZero, bugResolved}

\* an active bug with a title of its own that is assigned to somebody else
bugOther == Bug(<<5>>, <<>>, <<>>, <<>>, <<>>, "active", "you", "", <<"me">>)

RECURSIVE SeqsUpTo(_, _)
SeqsUpTo(S, n) ==
  IF n = 0 THEN {<<>>}
  ELSE LET shorter == SeqsUpTo(S, n - 1)
       IN shorter \cup {Append(q, x) : q \in {r \in shorter : Len(r) = n - 1}, x \in S}

BugLists == SeqsUpTo(BugPool, MaxBugs)

ListBodies ==
  {EmptyBody}
    \cup {[EmptyBody EXCEPT !.bugs = <<l>>] : l \in BugLists}
    \cup {[EmptyBody EXCEPT !.dataBugs = <<l>>] : l \in BugLists}

ListResponses ==
  {RawResponse(200, FALSE, b) : b \in ListBodies}
    \cup {RawResponse(500, FALSE, EmptyBody), RawResponse(400, TRUE, EmptyBody), RawAbort}

ResolveResponses ==
  {RawResponse(200, FALSE, EmptyBody), RawResponse(500, FALSE, EmptyBody)}

LoginResponses ==
  {RawResponse(200, FALSE, [EmptyBody EXCEPT !.token = TokenIssuedAt(now)]),
   RawResponse(200, FALSE, [EmptyBody EXCEPT !.dataToken = TokenIssuedAt(now)]),
   RawResponse(200, FALSE, [EmptyBody EXCEPT !.sessionToken = TokenIssuedAt(now)]),
   RawResponse(200, FALSE, EmptyBody),
   RawResponse(404, FALSE, EmptyBody),
   RawAbort}

AbsolutePath == <<"http:", "/", "/", "evil.example", "/", "x">>

CustomBugsPath == <<"/", "mybugs">>

\* the retries given to callWithRetry: a negative number, the default 0, more
RetryCounts == -1..MaxRetries

\* the paths given to call: relative, absolute, empty
CallPaths == {DefaultBugsPath, AbsolutePath, <<>>}

CallResponses ==
  {RawResponse(200, FALSE, EmptyBody), RawResponse(401, FALSE, EmptyBody), RawAbort}

CommentResponses ==
  {RawResponse(200, FALSE, EmptyBody), RawResponse(404, FALSE, EmptyBody),
   RawResponse(500, FALSE, EmptyBody), RawAbort}

\* what the upstream may answer to the request of a call site
ResponsesFor(kind) ==
  CASE kind = "resolve" -> ResolveResponses
    [] kind \in {"list", "fallback"} -> ListResponses
    [] kind \in {"comment", "comments"} -> CommentResponses
    [] OTHER -> CallResponses

\* what the upstream may answer getMyBugs with: the answers the batch may
\* get, and longer lists
RecordLists == SeqsUpTo({bugB, bugResolved, bugOther}, MaxRecords)

\* bodies that hold lists in several places, in the later places only, or
\* nowhere: {bugs, data: {bugs}}, {bugs, data: []}, {data: []}, [], null
ShapedListBodies ==
  {[EmptyBody EXCEPT !.bugs = <<<<bugB>>>>, !.dataBugs = <<<<bugOther, bugB>>>>],
   [EmptyBody EXCEPT !.bugs = <<<<>>>>, !.data = <<<<bugB>>>>],
   [EmptyBody EXCEPT !.data = <<<<bugB, bugOther>>>>],
   [EmptyBody EXCEPT !.top = <<<<bugB, bugB, bugOther>>>>],
   [EmptyBody EXCEPT !.isNull = TRUE]}

\* a 200 whose body is no JSON, declared as JSON or not
TextResponses ==
  {Response(200, FALSE, JsonType, Text(0, <<>>)),
   Response(200, FALSE, HtmlType, Text(ShortLen, <<>>))}

GetMyBugsResponses ==
  ListResponses
    \cup {RawResponse(200, FALSE, [EmptyBody EXCEPT !.bugs = <<l>>]) : l \in RecordLists}
    \cup {RawResponse(200, FALSE, b) : b \in ShapedListBodies}
    \cup TextResponses

\* the values a detail body may hold
bugObject == JsonValue("object", "bug")
bugArray == JsonValue("array", "bug")
bugNull == JsonValue("null", "bug")
nestedBugObject == JsonValue("object", "data.bug")
dataObject == JsonValue("object", "data")

\* {bug}, {bug, data: {bug}}, {bug: [..]}, {bug: null, data: {bug}},
\* {data: {bug}}, {data: {..}}, {bug: null, data: {..}}, {data: []}, {},
\* [], null
DetailBodies ==
  {[EmptyBody EXCEPT !.bug = <<bugObject>>],
   [EmptyBody EXCEPT !.bug = <<bugObject>>, !.dataBug = <<nestedBugObject>>,
                     !.dataObject = <<dataObject>>],
   [EmptyBody EXCEPT !.bug = <<bugArray>>],
   [EmptyBody EXCEPT !.bug = <<bugNull>>, !.dataBug = <<nestedBugObject>>,
                     !.dataObject = <<dataObject>>],
   [EmptyBody EXCEPT !.dataBug = <<nestedBugObject>>, !.dataObject = <<dataObject>>],
   [EmptyBody EXCEPT !.dataObject = <<dataObject>>],
   [EmptyBody EXCEPT !.bug = <<bugNull>>, !.dataObject = <<dataObject>>],
   [EmptyBody EXCEPT !.data = <<<<>>>>],
   EmptyBody,
   [EmptyBody EXCEPT !.top = <<<<>>>>],
   [EmptyBody EXCEPT !.isNull = TRUE]}

\* what the upstream may answer listMyProjects with
ProjectsResponses ==
  CallResponses
    \cup {RawResponse(200, FALSE,
                      [EmptyBody EXCEPT
                         !.projects = <<<<[isObject |-> TRUE, words |-> {"p"}],
                                          [isObject |-> TRUE, words |-> {"q"}],
                                          [isObject |-> FALSE, words |-> {}]>>>>]),
          RawResponse(200, FALSE,
                      [EmptyBody EXCEPT
                         !.data = <<<<[isObject |-> TRUE, words |-> {"q"}]>>>>])}

\* what the upstream may answer getBugDetail with
DetailResponses ==
  CallResponses
    \cup {RawResponse(200, FALSE, b) : b \in DetailBodies}
    \cup TextResponses

\* the answers of a flaky gateway, which callWithRetry is meant for: statuses
\* on both sides of the 2xx range, declared as JSON or not, texts that parse
\* or not, of lengths around the limit of truncate, and the two statuses
\* that tell of a refused token
BodyLengths == {0, ShortLen, TruncateMax, TruncateMax + 1, MaxBodyLen}

Texts ==
  {Text(len, parsed) : len \in BodyLengths, parsed \in {<<>>, <<EmptyBody>>}}
    \ {Text(0, <<EmptyBody>>)}

GatewayResponses ==
  {Response(status, FALSE, contentType, text) :
     status \in {200, 299, 300, 404},
     contentType \in {JsonType, JsonCharsetType, HtmlType, NoType},
     text \in Texts}
    \cup {RawResponse(401, FALSE, EmptyBody), RawResponse(403, FALSE, EmptyBody)}
    \cup {RawAbort, RawNetworkError}

\* what the upstream may answer to a request of operation op from call site kind
ResponsesTo(op, kind) ==
  CASE op = "getMyBugs" -> GetMyBugsResponses
    [] op = "getBugDetail" -> DetailResponses
    [] op = "listMyProjects" -> ProjectsResponses
    [] op = "callWithRetry" -> GatewayResponses
    [] OTHER -> ResponsesFor(kind)

\* Base URLs and prefixes as the configuration loader leaves them, without
\* trailing slashes: a base URL with and without a path of its own, the
\* default prefix, the same without its leading slash, and the empty prefix
UrlBases == {baseUrl, baseUrl \o <<"/", "zentao">>}
UrlPrefixes == {apiPrefix, Tail(apiPrefix), <<>>}

\* the pieces the paths given to buildUrl are made of
PathPieces == {"/", "bugs", "..", QueryPiece}

\* no two names follow each other, and the query is the end of the path
WellFormedPath(p) ==
  \A i \in 1..(Len(p) - 1) :
    /\ p[i] # QueryPiece
    /\ p[i] # "/" => p[i + 1] \in {"/", QueryPiece}

UrlPaths ==
  {p \in SeqsUpTo(PathPieces, MaxPathLen) : WellFormedPath(p)} \cup {AbsolutePath}

\* identifiers given to the single-bug operations: none, 0, 1
OpIds == {Undefined, <<0>>, <<1>>}

\* a path with no placeholder and a trailing slash
PlainPath == <<"/", "b", "/">>

\* a comment path that does not end in /comment
NotesPath == <<"/", "bugs", "/", "{id}", "/", "notes">>

GetMyBugsArgs ==
  [status : {"active"}, keyword : {<<>>, <<"crash">>}, productId : {Undefined, <<1>>},
   maxItems : {Undefined}, assignedTo : {""},
   listPath : {DefaultBugsPath, CustomBugsPath, AbsolutePath},
   resolvePath : {<<>>}, stopOnError : {FALSE},
   resolution : {""}, solution : {""}, comment : {""}]

DetailArgs ==
  [id : OpIds, result : {""}, resolution : {""}, solution : {""}, comment : {""},
   path : {<<>>, PlainPath, AbsolutePath}, closePath : {<<>>}, activatePath : {<<>>}]

ResolveArgs ==
  [id : OpIds, result : {""}, resolution : {"", "wontfix"},
   solution : {"", " ", "A", " A "}, comment : {"", "B", " B "},
   path : {<<>>, PlainPath, AbsolutePath}, closePath : {<<>>}, activatePath : {<<>>}]

CloseArgs ==
  [id : OpIds, result : {""}, resolution : {""}, solution : {""}, comment : {"", "B"},
   path : {<<>>, PlainPath, AbsolutePath}, closePath : {<<>>}, activatePath : {<<>>}]

VerifyArgs ==
  [id : OpIds, result : {"", "pass", " PASS ", "fail", "Fail", "maybe", " "},
   resolution : {""}, solution : {""}, comment : {"", "B"}, path : {<<>>},
   closePath : {DefaultClosePath, AbsolutePath},
   activatePath : {DefaultActivatePath, AbsolutePath}]

CommentArgs ==
  [id : OpIds, result : {""}, resolution : {""}, solution : {""},
   comment : {"", " ", "B", " B "},
   path : {<<>>, NotesPath, PlainPath, AbsolutePath},
   closePath : {<<>>}, activatePath : {<<>>}]

\* the list is asked on the default path, or with a product on a path of
\* the caller's own
BatchArgs ==
  {a \in [status : {"active"}, keyword : {<<>>}, productId : {Undefined, <<1>>},
          maxItems : {Undefined, <<-1>>, <<2>>},
          assignedTo : {""},
          listPath : {DefaultBugsPath, CustomBugsPath},
          resolvePath : {DefaultResolvePath, AbsolutePath},
          stopOnError : BOOLEAN,
          resolution : {""}, solution : {""}, comment : {""}] :
     IsDefined(a.productId) <=> a.listPath = CustomBugsPath}

----------------------------------------------------------------------------
(* Actions *)

Step(t, tr) ==
  /\ task' = [task EXCEPT ![t] = tr]
  /\ inflight' = inflight \cup Dispatched(t, task[t], tr)

\* getToken({force}) is called
StartGetToken(t) ==
  /\ task[t].pc = "idle"
  /\ \E force \in BOOLEAN :
       Step(t, GetTokenEnter([IdleTask EXCEPT
                                !.op = "getToken",
                                !.entry = [tok |-> cachedToken, at |-> cachedAt,
                                           now |-> now, force |-> force]],
                             force))
  /\ UNCHANGED <<cachedToken, cachedAt, now, auth, defaultProductId>>

\* batchResolveMyBugs(args) is called
StartBatch(t) ==
  /\ task[t].pc = "idle"
  /\ \E a \in BatchArgs :
       Step(t, GetMyBugsEnter([IdleTask EXCEPT !.op = "batch", !.args = a,
                                               !.safeMaxItems = SafeMaxItems(a.maxItems)],
                              a.status, a.keyword, a.productId, a.listPath,
                              a.assignedTo))
  /\ UNCHANGED <<cachedToken, cachedAt, now, auth, defaultProductId>>

\* a login that fails empties the cache
LoginResponseForgetsOnFailure(t) ==
  /\ task[t].pc = "loginWait"
  /\ \E n \in 1..Len(task[t].reqs), raw \in LoginResponses :
       /\ <<t, n>> \in inflight
       /\ task[t].reqs[n].kind = "login"
       /\ LET resp == fetchJson(raw)
              token == ExtractToken(resp.data)
              left == cleanup(task[t], n)
              tr0 == IF task[t].op = "getToken"
                     THEN [left EXCEPT !.callRes = resp]
                     ELSE left
              tr == IF resp.err # NoErr THEN TokenFails(tr0, resp.err)
                    ELSE IF TokenMissing(token) THEN TokenFails(tr0, ErrTokenFieldMissing)
                    ELSE TokenResolved(tr0, token, "login")
          IN /\ IF resp.err = NoErr /\ ~TokenMissing(token)
                THEN /\ cachedToken' = CacheWrite(token, now).token
                     /\ cachedAt' = CacheWrite(token, now).at
                ELSE cachedToken' = "" /\ cachedAt' = 0
             /\ task' = [task EXCEPT ![t] = tr]
             /\ inflight' = (inflight \ {<<t, n>>}) \cup Dispatched(t, task[t], tr)
  /\ UNCHANGED <<now, auth, defaultProductId>>

\* the login request completes (zentao.js:88-107); the caller of getToken
\* keeps the answer its login got
LoginResponse(t) ==
  /\ task[t].pc = "loginWait"
  /\ \E n \in 1..Len(task[t].reqs), raw \in LoginResponses :
       /\ <<t, n>> \in inflight
       /\ task[t].reqs[n].kind = "login"
       /\ LET resp == fetchJson(raw)
              token == ExtractToken(resp.data)
              left == cleanup(task[t], n)
              tr0 == IF task[t].op = "getToken"
                     THEN [left EXCEPT !.callRes = resp]
                     ELSE left
              tr == IF resp.err # NoErr THEN TokenFails(tr0, resp.err)
                    ELSE IF TokenMissing(token) THEN TokenFails(tr0, ErrTokenFieldMissing)
                    ELSE TokenResolved(tr0, token, "login")
          IN /\ IF resp.err = NoErr /\ ~TokenMissing(token)
                THEN /\ cachedToken' = CacheWrite(token, now).token
                     /\ cachedAt' = CacheWrite(token, now).at
                ELSE UNCHANGED <<cachedToken, cachedAt>>
             /\ task' = [task EXCEPT ![t] = tr]
             /\ inflight' = (inflight \ {<<t, n>>}) \cup Dispatched(t, task[t], tr)
  /\ UNCHANGED <<now, auth, defaultProductId>>

\* a 401 or 403 empties the cache
ApiResponseDropsToken(t) ==
  /\ task[t].pc = "apiWait"
  /\ \E n \in 1..Len(task[t].reqs) :
       /\ <<t, n>> \in inflight
       /\ task[t].reqs[n].kind = "api"
       /\ \E raw \in ResponsesTo(task[t].op, task[t].reqs[n].ctx) :
            /\ task' = [task EXCEPT ![t] = [CallSettles(cleanup(task[t], n),
                                                        fetchJson(raw))
                                               EXCEPT !.resp = raw]]
            /\ inflight' = inflight \ {<<t, n>>}
            /\ IF fetchJson(raw).status \in {401, 403}
               THEN cachedToken' = "" /\ cachedAt' = 0
               ELSE UNCHANGED <<cachedToken, cachedAt>>
  /\ UNCHANGED <<now, auth, defaultProductId>>

\* an API request completes (zentao.js:121)
ApiResponse(t) ==
  /\ task[t].pc = "apiWait"
  /\ \E n \in 1..Len(task[t].reqs) :
       /\ <<t, n>> \in inflight
       /\ task[t].reqs[n].kind = "api"
       /\ \E raw \in ResponsesTo(task[t].op, task[t].reqs[n].ctx) :
            /\ task' = [task EXCEPT ![t] = [CallSettles(cleanup(task[t], n),
                                                        fetchJson(raw))
                                               EXCEPT !.resp = raw]]
            /\ inflight' = inflight \ {<<t, n>>}
  /\ UNCHANGED <<cachedToken, cachedAt, now, auth, defaultProductId>>

\* getMyBugs resumes after its list request (zentao.js:345-370), and the
\* batch takes its candidates (zentao.js:561-563); the response is a local of
\* getMyBugs and is gone when it returns
ListReturn(t) ==
  /\ task[t].pc = "callRet"
  /\ task[t].ctx.kind \in {"list", "fallback"}
  /\ LET tr == task[t]
     IN IF tr.callRes.err = NoErr
        THEN LET lr == ListResult(tr)
             IN IF tr.op = "batch"
                THEN Step(t, [tr EXCEPT !.listResult = lr,
                                        !.callRes.data = EmptyBody,
                                        !.resp = NoResponse,
                                        !.candidates = Slice(lr.bugs, tr.safeMaxItems),
                                        !.idx = 1, !.pc = "loop"])
                ELSE Step(t, Returns(tr, [NoResult EXCEPT !.kind = "ok", !.list = lr,
                                                          !.status = tr.callRes.status,
                                                          !.path = tr.primaryPath]))
        ELSE IF UsesFallback(tr)
             THEN Step(t, EnterCall(tr, "fallback",
                                    ProductBugsPath(tr.effectiveProductId[1]), 0, 0))
             ELSE Step(t, ListFails(tr, tr.callRes.err))
  /\ UNCHANGED <<cachedToken, cachedAt, now, auth, defaultProductId>>

\* one turn of the loop (zentao.js:565-579) or its end (zentao.js:587)
BatchLoop(t) ==
  /\ task[t].pc = "loop"
  /\ LET tr == task[t]
     IN IF tr.idx > Len(tr.candidates)
        THEN Step(t, BatchReturns(tr))
        ELSE LET bugId == getBugId(tr.candidates[tr.idx])
             IN IF ~IsDefined(bugId) \/ bugId[1] = 0
                THEN Step(t, RecordFailure(tr, Undefined, "MissingBugId"))
                ELSE Step(t, AwaitResolve(ResolveBugEnter(tr, bugId[1],
                                                          tr.args.resolvePath, tr.idx)))
  /\ UNCHANGED <<cachedToken, cachedAt, now, auth, defaultProductId>>

\* resolveBug settles (zentao.js:580-584)
ResolveReturn(t) ==
  /\ task[t].pc = "callRet"
  /\ task[t].op = "batch"
  /\ task[t].ctx.kind = "resolve"
  /\ LET tr == task[t]
     IN IF tr.callRes.err = NoErr
        THEN Step(t, RecordSuccess(tr, tr.ctx.id, tr.callRes.status))
        ELSE Step(t, RecordFailure(tr, Some(tr.ctx.id), tr.callRes.err.type))
  /\ UNCHANGED <<cachedToken, cachedAt, now, auth, defaultProductId>>

\* call({path}) is called
StartCall(t) ==
  /\ task[t].pc = "idle"
  /\ \E path \in CallPaths :
       Step(t, EnterCall([IdleTask EXCEPT !.op = "call"], "call", path, 0, 0))
  /\ UNCHANGED <<cachedToken, cachedAt, now, auth, defaultProductId>>

\* call settles for its caller (zentao.js:121)
CallReturn(t) ==
  /\ task[t].pc = "callRet"
  /\ task[t].op = "call"
  /\ LET tr == task[t]
     IN IF tr.callRes.err = NoErr
        THEN Step(t, Returns(tr, [NoResult EXCEPT !.kind = "ok",
                                                  !.status = tr.callRes.status,
                                                  !.path = tr.ctx.path]))
        ELSE Step(t, Throws(tr, tr.callRes.err))
  /\ UNCHANGED <<cachedToken, cachedAt, now, auth, defaultProductId>>

\* zentao.js:599  i <= retries for i = 0
RetryLoopEntered(retries) == 0 <= retries

\* zentao.js:598-602, 609  callWithRetry up to its first await, or its throw
\* when the loop is not entered
CallWithRetryEnter(tr, path) ==
  IF RetryLoopEntered(tr.retries)
  THEN EnterCall([tr EXCEPT !.nCall = 1], "call", path, 0, 0)
  ELSE Throws(tr, ErrUndefined)

\* callWithRetry(args, {retries}) is called (zentao.js:598-602)
StartCallWithRetry(t) ==
  /\ task[t].pc = "idle"
  /\ \E path \in CallPaths, retries \in RetryCounts :
       Step(t, CallWithRetryEnter([IdleTask EXCEPT !.op = "callWithRetry",
                                                   !.retries = retries], path))
  /\ UNCHANGED <<cachedToken, cachedAt, now, auth, defaultProductId>>

\* an attempt of callWithRetry settles (zentao.js:602-609)
RetryReturn(t) ==
  /\ task[t].pc = "callRet"
  /\ task[t].op = "callWithRetry"
  /\ LET tr == task[t]
     IN IF tr.callRes.err = NoErr
        THEN Step(t, Returns(tr, [NoResult EXCEPT !.kind = "ok",
                                                  !.status = tr.callRes.status,
                                                  !.path = tr.ctx.path]))
        ELSE IF tr.attempt = tr.retries
             THEN Step(t, Throws(tr, tr.callRes.err))
             ELSE Step(t, [tr EXCEPT !.pc = "sleep"])
  /\ UNCHANGED <<cachedToken, cachedAt, now, auth, defaultProductId>>

\* the backoff of callWithRetry is over: the next attempt (zentao.js:600-602, 606)
RetryWake(t) ==
  /\ task[t].pc = "sleep"
  /\ Step(t, EnterCall([task[t] EXCEPT !.attempt = @ + 1, !.nCall = @ + 1],
                       "call", task[t].ctx.path, 0, 0))
  /\ UNCHANGED <<cachedToken, cachedAt, now, auth, defaultProductId>>

\* getMyBugs(args) is called
StartGetMyBugs(t) ==
  /\ task[t].pc = "idle"
  /\ \E a \in GetMyBugsArgs :
       Step(t, GetMyBugsEnter([IdleTask EXCEPT !.op = "getMyBugs", !.args = a],
                              a.status, a.keyword, a.productId, a.listPath,
                              a.assignedTo))
  /\ UNCHANGED <<cachedToken, cachedAt, now, auth, defaultProductId>>

\* getBugDetail({id, path}) is called
StartGetBugDetail(t) ==
  /\ task[t].pc = "idle"
  /\ \E a \in DetailArgs :
       Step(t, GetBugDetailEnter([IdleTask EXCEPT !.op = "getBugDetail", !.opArgs = a],
                                 a.id, a.path))
  /\ UNCHANGED <<cachedToken, cachedAt, now, auth, defaultProductId>>

\* resolveBug({id, resolution, solution, comment, path}) is called
StartResolveBug(t) ==
  /\ task[t].pc = "idle"
  /\ \E a \in ResolveArgs :
       Step(t, ResolveBugEnterWith([IdleTask EXCEPT !.op = "resolveBug", !.opArgs = a],
                                   a.id, a.resolution, a.solution, a.comment, a.path, 0))
  /\ UNCHANGED <<cachedToken, cachedAt, now, auth, defaultProductId>>

\* closeBug({id, comment, path}) is called
StartCloseBug(t) ==
  /\ task[t].pc = "idle"
  /\ \E a \in CloseArgs :
       Step(t, CloseBugEnter([IdleTask EXCEPT !.op = "closeBug", !.opArgs = a],
                             a.id, a.comment, a.path))
  /\ UNCHANGED <<cachedToken, cachedAt, now, auth, defaultProductId>>

\* verifyBug({id, result, comment, closePath, activatePath}) is called
StartVerifyBug(t) ==
  /\ task[t].pc = "idle"
  /\ \E a \in VerifyArgs :
       Step(t, VerifyBugEnter([IdleTask EXCEPT !.op = "verifyBug", !.opArgs = a],
                              a.id, a.result, a.comment, a.closePath, a.activatePath))
  /\ UNCHANGED <<cachedToken, cachedAt, now, auth, defaultProductId>>

\* commentBug({id, comment, path}) is called
StartCommentBug(t) ==
  /\ task[t].pc = "idle"
  /\ \E a \in CommentArgs :
       Step(t, CommentBugEnter([IdleTask EXCEPT !.op = "commentBug", !.opArgs = a],
                               a.id, a.comment, a.path))
  /\ UNCHANGED <<cachedToken, cachedAt, now, auth, defaultProductId>>

\* getBugDetail, resolveBug, closeBug or verifyBug resumes after its call
\* (zentao.js:380-397, 420-428, 441-446, 480-497)
OpReturn(t) ==
  /\ task[t].pc = "callRet"
  /\ task[t].op \in {"getBugDetail", "resolveBug", "closeBug", "verifyBug"}
  /\ LET tr == task[t]
     IN IF tr.callRes.err = NoErr
        THEN Step(t, Returns(tr, [NoResult EXCEPT
                                    !.kind = "ok",
                                    !.status = tr.callRes.status,
                                    !.path = tr.ctx.path,
                                    !.action = IF tr.op = "verifyBug"
                                               THEN tr.ctx.kind ELSE "",
                                    !.found = IF tr.op = "getBugDetail"
                                              THEN DetailResult(tr).found ELSE FALSE,
                                    !.bug = IF tr.op = "getBugDetail"
                                            THEN DetailResult(tr).bug ELSE <<>>,
                                    !.comment = IF tr.op = "resolveBug"
                                                THEN tr.body.comment ELSE <<>>]))
        ELSE Step(t, Throws(tr, tr.callRes.err))
  /\ UNCHANGED <<cachedToken, cachedAt, now, auth, defaultProductId>>

\* commentBug resumes after a comment request (zentao.js:513-532)
CommentReturn(t) ==
  /\ task[t].pc = "callRet"
  /\ task[t].op = "commentBug"
  /\ LET tr == task[t]
     IN IF tr.callRes.err = NoErr
        THEN Step(t, Returns(tr, [NoResult EXCEPT !.kind = "ok",
                                                  !.status = tr.callRes.status,
                                                  !.path = tr.ctx.path,
                                                  !.comment = tr.body.comment]))
        ELSE IF CommentUsesFallback(tr)
             THEN Step(t, EnterCall(tr, "comments", PluralizeCommentPath(tr.primaryPath),
                                    0, tr.ctx.id))
             ELSE Step(t, Throws(tr, tr.callRes.err))
  /\ UNCHANGED <<cachedToken, cachedAt, now, auth, defaultProductId>>

\* the caller has its answer; the task is free for the next operation
Finish(t) ==
  /\ task[t].pc = "done"
  /\ task' = [task EXCEPT ![t] = IdleTask]
  /\ UNCHANGED <<cachedToken, cachedAt, now, auth, defaultProductId, inflight>>

\* time passes
Tick ==
  /\ now < MaxTime
  /\ \A t \in DOMAIN task : task[t].pc \in {"idle", "loginWait", "apiWait", "sleep"}
  /\ now' = now + 1
  /\ UNCHANGED <<cachedToken, cachedAt, auth, defaultProductId, task, inflight>>

Init ==
  /\ cachedToken = ""
  /\ cachedAt = 0
  /\ now = 1
  /\ auth \in AuthConfigs
  /\ defaultProductId \in {Undefined}
  /\ task = [t \in Tasks |-> IdleTask]
  /\ inflight = {}

Next ==
  \/ \E t \in Tasks : StartGetToken(t)
  \/ \E t \in Tasks : StartBatch(t)
  \/ \E t \in Tasks : LoginResponse(t)
  \/ \E t \in Tasks : ApiResponse(t)
  \/ \E t \in Tasks : ListReturn(t)
  \/ \E t \in Tasks : BatchLoop(t)
  \/ \E t \in Tasks : ResolveReturn(t)
  \/ \E t \in Tasks : Finish(t)
  \/ Tick

Spec == Init /\ [][Next]_vars

\* Two callers share one client: each runs getToken or call, interleaved at
\* their await points.
ConcTasks == {"t1", "t2"}

InitConc ==
  /\ cachedToken = ""
  /\ cachedAt = 0
  /\ now = 1
  /\ auth \in AuthConfigs
  /\ defaultProductId \in {Undefined}
  /\ task = [t \in ConcTasks |-> IdleTask]
  /\ inflight = {}

NextConc ==
  \/ \E t \in ConcTasks : StartGetToken(t)
  \/ \E t \in ConcTasks : StartCall(t)
  \/ \E t \in ConcTasks : LoginResponse(t)
  \/ \E t \in ConcTasks : ApiResponse(t)
  \/ \E t \in ConcTasks : CallReturn(t)
  \/ \E t \in ConcTasks : Finish(t)
  \/ Tick

ConcSpec == InitConc /\ [][NextConc]_vars

\* One caller runs the operations of the client one after the other.
NextOps ==
  \/ \E t \in Tasks : StartCall(t)
  \/ \E t \in Tasks : StartCallWithRetry(t)
  \/ \E t \in Tasks : StartGetMyBugs(t)
  \/ \E t \in Tasks : StartGetBugDetail(t)
  \/ \E t \in Tasks : StartResolveBug(t)
  \/ \E t \in Tasks : StartCloseBug(t)
  \/ \E t \in Tasks : StartVerifyBug(t)
  \/ \E t \in Tasks : StartCommentBug(t)
  \/ \E t \in Tasks : LoginResponse(t)
  \/ \E t \in Tasks : ApiResponse(t)
  \/ \E t \in Tasks : CallReturn(t)
  \/ \E t \in Tasks : RetryReturn(t)
  \/ \E t \in Tasks : RetryWake(t)
  \/ \E t \in Tasks : ListReturn(t)
  \/ \E t \in Tasks : OpReturn(t)
  \/ \E t \in Tasks : CommentReturn(t)
  \/ \E t \in Tasks : Finish(t)
  \/ Tick

OpsSpec == Init /\ [][NextOps]_vars

\* One caller runs calls through callWithRetry against a flaky gateway.
NextTransport ==
  \/ \E t \in Tasks : StartCallWithRetry(t)
  \/ \E t \in Tasks : LoginResponse(t)
  \/ \E t \in Tasks : ApiResponse(t)
  \/ \E t \in Tasks : RetryReturn(t)
  \/ \E t \in Tasks : RetryWake(t)
  \/ \E t \in Tasks : Finish(t)
  \/ Tick

TransportSpec == Init /\ [][NextTransport]_vars

\* One caller runs calls.  Every exchange ends: the response arrives, or the
\* timer of zentao.js:29 fires.
NextExchange ==
  \/ \E t \in Tasks : StartCall(t)
  \/ \E t \in Tasks : LoginResponse(t)
  \/ \E t \in Tasks : ApiResponse(t)
  \/ \E t \in Tasks : CallReturn(t)
  \/ \E t \in Tasks : Finish(t)
  \/ Tick

\* buildUrl on its own: the arguments are drawn at the start
UrlTask(base, prefix, path) ==
  [op |-> "buildUrl", pc |-> "idle", base |-> base, prefix |-> prefix,
   path |-> path, built |-> buildUrlFrom(baseUrl, apiPrefix, <<>>),
   loginUrl |-> NoURL]

\* buildUrl({baseUrl, apiPrefix, path}) is applied
ApplyBuildUrl(t) ==
  /\ task[t].op = "buildUrl"
  /\ task[t].pc = "idle"
  /\ task' = [task EXCEPT ![t].pc = "done",
                          ![t].built = buildUrlFrom(task[t].base, task[t].prefix,
                                                    task[t].path)]
  /\ UNCHANGED <<cachedToken, cachedAt, now, auth, defaultProductId, inflight>>

InitUrl ==
  /\ cachedToken = ""
  /\ cachedAt = 0
  /\ now = 1
  /\ auth \in AuthConfigs
  /\ defaultProductId \in {Undefined}
  /\ task \in {[t \in Tasks |-> UrlTask(base, prefix, path)] :
                 base \in UrlBases, prefix \in UrlPrefixes, path \in UrlPaths}
  /\ inflight = {}

\* the URL of the login request is built (zentao.js:86) with the token path
\* the configuration loader derives from the prefix (part_001:46-47)
ApplyLoginUrl(t) ==
  /\ task[t].op = "buildUrl"
  /\ task[t].pc = "idle"
  /\ task' = [task EXCEPT ![t].pc = "loginUrl",
                          ![t].loginUrl = LoginUrlFrom(task[t].base,
                                                       DefaultTokenPath(task[t].prefix))]
  /\ UNCHANGED <<cachedToken, cachedAt, now, auth, defaultProductId, inflight>>

NextUrl ==
  \/ \E t \in Tasks : ApplyBuildUrl(t)
  \/ \E t \in Tasks : ApplyLoginUrl(t)

UrlSpec == InitUrl /\ [][NextUrl]_vars

\* The path templates on their own: the identifier and the template are
\* drawn at the start; a template is made of slashes, a name and the
\* placeholder.
TemplatePieces == {"/", "b", "{id}"}
PathTemplates == SeqsUpTo(TemplatePieces, MaxPathLen)
TemplateIds == {1, 2}
TemplateKinds == {"detail", "resolve", "close", "activate", "comment"}

PathTask(id, template) ==
  [op |-> "buildPath", pc |-> "idle", id |-> id, template |-> template,
   kind |-> "none", resolved |-> <<>>]

\* the builder an operation resolves its template with (zentao.js:379, 412,
\* 437, 455, 510)
ResolveTemplate(kind, id, path) ==
  CASE kind = "detail" -> buildBugDetailPath(id, path)
    [] kind = "resolve" -> buildBugResolvePath(id, path)
    [] kind = "comment" -> buildBugCommentPath(id, path)
    [] OTHER -> buildBugTransitionPath(id, path, kind)

\* one of the operations resolves the template for the identifier
ApplyPathTemplate(t) ==
  /\ task[t].op = "buildPath"
  /\ task[t].pc = "idle"
  /\ \E kind \in TemplateKinds :
       task' = [task EXCEPT ![t].pc = "done",
                            ![t].kind = kind,
                            ![t].resolved = ResolveTemplate(kind, task[t].id,
                                                            task[t].template)]
  /\ UNCHANGED <<cachedToken, cachedAt, now, auth, defaultProductId, inflight>>

InitPath ==
  /\ cachedToken = ""
  /\ cachedAt = 0
  /\ now = 1
  /\ auth \in AuthConfigs
  /\ defaultProductId \in {Undefined}
  /\ task \in {[t \in Tasks |-> PathTask(id, template)] :
                 id \in TemplateIds, template \in PathTemplates}
  /\ inflight = {}

NextPath == \E t \in Tasks : ApplyPathTemplate(t)

PathSpec == InitPath /\ [][NextPath]_vars

\* The get_token tool of the server (src/unnamed/part_001:85-95) on its own:
\* the flag of the configuration and the token getToken returned are drawn
\* at the start; a token is a sequence of characters here.
Ellipsis == "..."

\* part_001:93  token ? `${token.slice(0, 6)}...${token.slice(-4)}` : ""
MaskToken(token) ==
  IF token = <<>> THEN <<>>
  ELSE Slice(token, 6) \o <<Ellipsis>> \o SliceLast(token, 4)

\* part_001:88-94  what the tool answers with
GetTokenOutput(exposeToken, result) ==
  IF exposeToken THEN result
  ELSE [result EXCEPT !.token = MaskToken(result.token)]

TokenTexts == SeqsUpTo({"a", "b"}, MaxTokenLen) \ {<<>>}

GetTokenToolTask(exposeToken, token, source) ==
  [op |-> "get_token", pc |-> "idle", exposeToken |-> exposeToken,
   result |-> [token |-> token, source |-> source],
   output |-> [token |-> <<>>, source |-> ""]]

\* the handler of get_token answers
GetTokenToolReturn(t) ==
  /\ task[t].op = "get_token"
  /\ task[t].pc = "idle"
  /\ task' = [task EXCEPT ![t].pc = "done",
                          ![t].output = GetTokenOutput(task[t].exposeToken,
                                                       task[t].result)]
  /\ UNCHANGED <<cachedToken, cachedAt, now, auth, defaultProductId, inflight>>

InitTool ==
  /\ cachedToken = ""
  /\ cachedAt = 0
  /\ now = 1
  /\ auth \in AuthConfigs
  /\ defaultProductId \in {Undefined}
  /\ task \in {[t \in Tasks |-> GetTokenToolTask(exposeToken, token, source)] :
                 exposeToken \in BOOLEAN, token \in TokenTexts,
                 source \in {"cache", "login"}}
  /\ inflight = {}

NextTool == \E t \in Tasks : GetTokenToolReturn(t)

ToolSpec == InitTool /\ [][NextTool]_vars

ExchangeSpec ==
  /\ Init
  /\ [][NextExchange]_vars
  /\ WF_vars(\E t \in Tasks : LoginResponse(t))
  /\ WF_vars(\E t \in Tasks : ApiResponse(t))

----------------------------------------------------------------------------
(* The call-tool handler of the server *)

\* Tool names are sequences of words and underscores, so that a prefix can be
\* cut off at an underscore and a name can be looked for at the end of another.
get_token == <<"get", "_", "token">>
call_tool == <<"call">>
list_my_projects == <<"list", "_", "my", "_", "projects">>
get_my_bugs == <<"get", "_", "my", "_", "bugs">>
get_bug_detail == <<"get", "_", "bug", "_", "detail">>
resolve_bug == <<"resolve", "_", "bug">>
batch_resolve_my_bugs == <<"batch", "_", "resolve", "_", "my", "_", "bugs">>
close_bug == <<"close", "_", "bug">>
verify_bug == <<"verify", "_", "bug">>
comment_bug == <<"comment", "_", "bug">>

\* tools.js:11-158  the names the server answers a list-tools request with
TOOLS ==
  <<get_token, call_tool, list_my_projects, get_my_bugs, get_bug_detail, resolve_bug,
    batch_resolve_my_bugs, close_bug, verify_bug, comment_bug>>

\* part_001:11-21, in the order of the set
KNOWN_TOOL_NAMES ==
  <<get_token, call_tool, list_my_projects, get_my_bugs, get_bug_detail, resolve_bug,
    batch_resolve_my_bugs, close_bug, verify_bug>>

Range(s) == {s[i] : i \in DOMAIN s}

EndsWith(s, suffix) ==
  /\ Len(suffix) <= Len(s)
  /\ SubSeq(s, Len(s) - Len(suffix) + 1, Len(s)) = suffix

\* part_001:23-36
normalizeToolName(rawName) ==
  IF rawName = <<>> THEN rawName
  ELSE IF rawName \in Range(KNOWN_TOOL_NAMES) THEN rawName
  ELSE LET withoutPrefix ==
             IF Len(rawName) >= 2 /\ rawName[1] # "_" /\ rawName[2] = "_"
             THEN SubSeq(rawName, 3, Len(rawName))
             ELSE rawName
           ending == {i \in DOMAIN KNOWN_TOOL_NAMES : EndsWith(rawName, KNOWN_TOOL_NAMES[i])}
       IN IF "_" \in Range(rawName) /\ withoutPrefix \in Range(KNOWN_TOOL_NAMES)
          THEN withoutPrefix
          ELSE IF ending # {}
               THEN KNOWN_TOOL_NAMES[CHOOSE i \in ending : \A j \in ending : i <= j]
               ELSE rawName

\* the arguments of a tool call: those the handler and the claims look at
NoToolArgs ==
  [id |-> Undefined, solution |-> "", comment |-> "", productId |-> Undefined,
   force |-> FALSE, keyword |-> ""]

\* tools.js:160-258  the message names the tool; the arguments left out of
\* NoToolArgs are not given
assertToolArgs(name, args) ==
  IF /\ name \in {get_my_bugs, batch_resolve_my_bugs}
     /\ IsDefined(args.productId)
     /\ args.productId[1] < 1
  THEN ErrToolArgs
  ELSE IF /\ name \in {get_bug_detail, resolve_bug, close_bug, verify_bug, comment_bug}
          /\ ~(IsDefined(args.id) /\ args.id[1] >= 1)
       THEN ErrToolArgs
       ELSE IF name = comment_bug /\ Trim(args.comment) = ""
            THEN ErrToolArgs
            ELSE NoErr

\* A project record: whether it is an object, and the words of its fields.
Project(isObject, words) == [isObject |-> isObject, words |-> words]

\* zentao.js:124-141
looksLikeMyProject(p, keyword) ==
  IF ~p.isObject THEN FALSE
  ELSE LET k == Trim(keyword)
       IN ~(k # "" /\ k \notin p.words)

RECURSIVE FilterProjects(_, _)
FilterProjects(list, keyword) ==
  IF list = <<>> THEN <<>>
  ELSE IF looksLikeMyProject(Head(list), keyword)
       THEN <<Head(list)>> \o FilterProjects(Tail(list), keyword)
       ELSE FilterProjects(Tail(list), keyword)

\* zentao.js:146-154  the result of listMyProjects
ProjectsResult(tr) ==
  LET data == tr.callRes.data
      list == IF tr.callRes.isText THEN <<>>
              ELSE IF IsDefined(data.projects) THEN data.projects[1]
              ELSE IF IsDefined(data.data) THEN data.data[1]
              ELSE IF IsDefined(data.top) THEN data.top[1]
              ELSE <<>>
      filtered == FilterProjects(list, tr.tool.args.keyword)
  IN [total |-> Len(list), matched |-> Len(filtered), bugs |-> filtered]

\* part_001:79-175  the handler up to the first await of the operation it
\* dispatches to, or its throw
CallToolEnter(tr) ==
  LET toolName == normalizeToolName(tr.tool.name)
      args == tr.tool.args
      refused == assertToolArgs(toolName, args)
  IN IF refused # NoErr THEN Throws(tr, refused)
     ELSE IF toolName = get_token
     THEN GetTokenEnter([tr EXCEPT !.op = "getToken",
                                   !.entry = [tok |-> cachedToken, at |-> cachedAt,
                                              now |-> now, force |-> args.force]],
                        args.force)
     ELSE IF toolName = call_tool
     THEN EnterCall([tr EXCEPT !.op = "call"], "call", DefaultBugsPath, 0, 0)
     ELSE IF toolName = list_my_projects
     THEN EnterCall([tr EXCEPT !.op = "listMyProjects"], "projects",
                    <<"/", "projects">>, 0, 0)
     ELSE IF toolName = get_my_bugs
     THEN GetMyBugsEnter([tr EXCEPT !.op = "getMyBugs",
                                    !.args = [NoArgs EXCEPT !.listPath = DefaultBugsPath]],
                         "", <<>>, Undefined, DefaultBugsPath, "")
     ELSE IF toolName = get_bug_detail
     THEN GetBugDetailEnter([tr EXCEPT !.op = "getBugDetail",
                                       !.opArgs = [NoOpArgs EXCEPT
                                                     !.id = args.id,
                                                     !.path = DefaultDetailPath]],
                            args.id, DefaultDetailPath)
     ELSE IF toolName = resolve_bug
     THEN ResolveBugEnterWith([tr EXCEPT !.op = "resolveBug",
                                         !.opArgs = [NoOpArgs EXCEPT
                                                       !.id = args.id,
                                                       !.resolution = "fixed",
                                                       !.comment = args.comment,
                                                       !.path = DefaultResolvePath]],
                              args.id, "fixed", "", args.comment, DefaultResolvePath, 0)
     ELSE IF toolName = batch_resolve_my_bugs
     THEN GetMyBugsEnter([tr EXCEPT !.op = "batch",
                                    !.args = [NoArgs EXCEPT
                                                !.status = "active",
                                                !.resolution = "fixed",
                                                !.comment = args.comment,
                                                !.listPath = DefaultBugsPath,
                                                !.resolvePath = DefaultResolvePath],
                                    !.safeMaxItems = SafeMaxItems(Undefined)],
                         "active", <<>>, Undefined, DefaultBugsPath, "")
     ELSE IF toolName = close_bug
     THEN CloseBugEnter([tr EXCEPT !.op = "closeBug",
                                   !.opArgs = [NoOpArgs EXCEPT
                                                 !.id = args.id,
                                                 !.comment = args.comment,
                                                 !.path = DefaultClosePath]],
                        args.id, args.comment, DefaultClosePath)
     ELSE IF toolName = verify_bug
     THEN VerifyBugEnter([tr EXCEPT !.op = "verifyBug",
                                    !.opArgs = [NoOpArgs EXCEPT
                                                  !.id = args.id,
                                                  !.result = "pass",
                                                  !.comment = args.comment,
                                                  !.closePath = DefaultClosePath,
                                                  !.activatePath = DefaultActivatePath]],
                         args.id, "pass", args.comment, DefaultClosePath,
                         DefaultActivatePath)
     ELSE Throws(tr, ErrUnknownTool)

\* the names a caller asks for: the advertised ones, two of them behind the
\* prefix of a client, and one the server does not have
RawToolNames ==
  Range(TOOLS)
    \cup {<<"zentao", "_">> \o get_token,
          <<"mcp", "_", "_", "zentao", "_", "_">> \o call_tool,
          <<"zentao", "_">> \o comment_bug,
          <<"delete", "_", "bug">>}

ToolIds == {<<0>>, <<1>>}

\* the arguments a tool is called with; an argument its schema does not
\* declare is left out
ToolArgsOf(name) ==
  IF name = get_token
  THEN [id : {Undefined}, solution : {""}, comment : {""}, productId : {Undefined},
        force : BOOLEAN, keyword : {""}]
  ELSE IF name = list_my_projects
  THEN [id : {Undefined}, solution : {""}, comment : {""}, productId : {Undefined},
        force : {FALSE}, keyword : {"", "q"}]
  ELSE IF name = get_my_bugs
  THEN [id : {Undefined}, solution : {""}, comment : {""}, productId : {Undefined, <<1>>},
        force : {FALSE}, keyword : {""}]
  ELSE IF name \in {get_bug_detail, close_bug, verify_bug}
  THEN [id : ToolIds, solution : {""}, comment : {""}, productId : {Undefined},
        force : {FALSE}, keyword : {""}]
  ELSE IF name = resolve_bug
  THEN [id : ToolIds, solution : {"", "A"}, comment : {"", "B"}, productId : {Undefined},
        force : {FALSE}, keyword : {""}]
  ELSE IF name = batch_resolve_my_bugs
  THEN [id : {Undefined}, solution : {"", "A"}, comment : {""},
        productId : {Undefined, <<1>>}, force : {FALSE}, keyword : {""}]
  ELSE IF name = comment_bug
  THEN [id : ToolIds, solution : {""}, comment : {"", "B"}, productId : {Undefined},
        force : {FALSE}, keyword : {""}]
  ELSE {NoToolArgs}

\* a call-tool request arrives (part_001:79-83)
CallTool(t) ==
  /\ task[t].pc = "idle"
  /\ \E rawToolName \in RawToolNames :
       \E args \in ToolArgsOf(normalizeToolName(rawToolName)) :
         Step(t, CallToolEnter([IdleTask EXCEPT !.tool = [name |-> rawToolName,
                                                          args |-> args]]))
  /\ UNCHANGED <<cachedToken, cachedAt, now, auth, defaultProductId>>

\* listMyProjects resumes after its call (zentao.js:145-154)
ProjectsReturn(t) ==
  /\ task[t].pc = "callRet"
  /\ task[t].op = "listMyProjects"
  /\ LET tr == task[t]
     IN IF tr.callRes.err = NoErr
        THEN Step(t, Returns(tr, [NoResult EXCEPT !.kind = "ok",
                                                  !.list = ProjectsResult(tr)]))
        ELSE Step(t, Throws(tr, tr.callRes.err))
  /\ UNCHANGED <<cachedToken, cachedAt, now, auth, defaultProductId>>

\* One caller sends call-tool requests to the server, one after the other.
NextRouter ==
  \/ \E t \in Tasks : CallTool(t)
  \/ \E t \in Tasks : LoginResponse(t)
  \/ \E t \in Tasks : ApiResponse(t)
  \/ \E t \in Tasks : CallReturn(t)
  \/ \E t \in Tasks : ListReturn(t)
  \/ \E t \in Tasks : BatchLoop(t)
  \/ \E t \in Tasks : ResolveReturn(t)
  \/ \E t \in Tasks : OpReturn(t)
  \/ \E t \in Tasks : ProjectsReturn(t)
  \/ \E t \in Tasks : Finish(t)
  \/ Tick

RouterSpec == Init /\ [][NextRouter]_vars

----------------------------------------------------------------------------
(* Properties *)

IsBatch(t) == task[t].op = "batch"
BatchReturned(t) == IsBatch(t) /\ task[t].pc = "done" /\ task[t].result.kind = "ok"
Outcome(t) == task[t].result.outcome

\* the indices of the resolve requests a task has dispatched
ResolveReqs(t) ==
  {n \in 1..Len(task[t].reqs) :
     task[t].reqs[n].kind = "api" /\ task[t].reqs[n].ctx = "resolve"}

\* C1: every outcome returned by batchResolveMyBugs has
\* attempted = resolved + failed.
C1_AttemptedIsResolvedPlusFailed ==
  \A t \in Tasks :
    BatchReturned(t) =>
      Outcome(t).attempted = Outcome(t).resolved + Outcome(t).failed

\* C2: every outcome returned by batchResolveMyBugs has attempted <= requested
\* and attempted <= maxItems, maxItems being brought into 1..500 (and left as
\* given when it is in that range); requested is the number of bugs the list
\* step matched, before the truncation.
C2_AttemptedBounded ==
  \A t \in Tasks :
    BatchReturned(t) =>
      LET m == task[t].args.maxItems
          bound == IF IsDefined(m) /\ m[1] # 0
                   THEN (IF m[1] < 1 THEN 1 ELSE IF m[1] > 500 THEN 500 ELSE m[1])
                   ELSE 50
      IN /\ Outcome(t).attempted <= Outcome(t).requested
         /\ Outcome(t).attempted <= bound
         /\ bound \in 1..500
         /\ Outcome(t).requested = task[t].listResult.matched
         /\ task[t].listResult.matched = Len(task[t].listResult.bugs)

\* C2 witness: a batch has returned after the truncation cut candidates off
C2_Witness ==
  \E t \in Tasks :
    /\ BatchReturned(t)
    /\ Outcome(t).attempted < Outcome(t).requested
    /\ Outcome(t).attempted = 2

\* C3: with stopOnError, once a failure is recorded (a candidate with no id or
\* a resolve that raises) the batch dispatches no further request and touches
\* no further candidate, and the outcome it returns has failed = 1.
C3_StopOnFirstFailure ==
  /\ [](\A t \in Tasks :
          (IsBatch(t) /\ task[t].args.stopOnError) =>
            /\ Len(task[t].failed) <= 1
            /\ Len(task[t].failed) = 1 =>
                 /\ BatchReturned(t)
                 /\ Outcome(t).failed = 1
                 /\ \A n \in ResolveReqs(t) : task[t].reqs[n].cand <= task[t].idx)
  /\ [][\A t \in Tasks :
          (IsBatch(t) /\ task[t].args.stopOnError /\ Len(task[t].failed) >= 1
             /\ IsBatch(t)') =>
            /\ task[t].reqs' = task[t].reqs
            /\ task[t].nResolveBug' = task[t].nResolveBug
            /\ task[t].idx' = task[t].idx
            /\ inflight' = inflight]_vars

\* C3 witness: the batch stopped at a failure that followed a success and
\* left a candidate untouched
C3_Witness ==
  \E t \in Tasks :
    /\ BatchReturned(t)
    /\ task[t].args.stopOnError
    /\ Outcome(t).failed = 1
    /\ Outcome(t).resolved = 1
    /\ Len(task[t].candidates) = 3

\* the requests of the task that are in flight
InFlightOf(t) == {p \in inflight : p[1] = t}

\* the resolve requests dispatched for the candidate at position i
ResolveReqsFor(t, i) == {n \in ResolveReqs(t) : task[t].reqs[n].cand = i}

\* the candidates of the batch from which getBugId extracts an identifier
ValidCandidates(t) ==
  {i \in 1..Len(task[t].candidates) : IsDefined(getBugId(task[t].candidates[i]))}

\* the batch has got its list and runs, or has run, its loop
LoopEntered(t) == IsBatch(t) /\ task[t].idx >= 1

\* C4 as stated: without stopOnError the batch never fails once it has its
\* list, resolved + failed = min(matched, maxItems), and every candidate with
\* a valid id receives exactly one resolve request.
C4_ExactlyOneResolveRequest ==
  \A t \in Tasks :
    (LoopEntered(t) /\ task[t].pc = "done" /\ ~task[t].args.stopOnError) =>
      /\ BatchReturned(t)
      /\ Outcome(t).resolved + Outcome(t).failed
           = Min(task[t].listResult.matched, task[t].safeMaxItems)
      /\ \A i \in ValidCandidates(t) : Cardinality(ResolveReqsFor(t, i)) = 1

\* C4 amended: without stopOnError the batch never fails once it has its list,
\* resolved + failed = min(matched, maxItems), and every candidate with a valid
\* id gets exactly one resolveBug call, which dispatches at most one resolve
\* request: none when the resolve path is rejected or the login made for that
\* candidate fails, one otherwise; every success had its request.
C4_AtMostOneResolveRequest ==
  \A t \in Tasks :
    (LoopEntered(t) /\ task[t].pc = "done" /\ ~task[t].args.stopOnError) =>
      /\ BatchReturned(t)
      /\ Outcome(t).resolved + Outcome(t).failed
           = Min(task[t].listResult.matched, task[t].safeMaxItems)
      /\ task[t].nResolveBug = Cardinality(ValidCandidates(t))
      /\ Cardinality(ResolveReqs(t)) >= Outcome(t).resolved
      /\ \A i \in ValidCandidates(t) :
           LET id == getBugId(task[t].candidates[i])[1]
               rejected ==
                 buildUrl(buildBugResolvePath(id, task[t].args.resolvePath)).err # NoErr
               login == \E n \in 1..Len(task[t].reqs) :
                          /\ task[t].reqs[n].kind = "login"
                          /\ task[t].reqs[n].cand = i
           IN /\ Cardinality(ResolveReqsFor(t, i)) <= 1
              /\ rejected => ResolveReqsFor(t, i) = {}
              /\ ResolveReqsFor(t, i) = {} => (rejected \/ login)

\* C4 witness: a candidate got no resolve request because its login failed,
\* and a later candidate was resolved all the same
C4_Witness ==
  \E t \in Tasks :
    /\ BatchReturned(t)
    /\ ~task[t].args.stopOnError
    /\ task[t].args.resolvePath = DefaultResolvePath
    /\ \E i, j \in ValidCandidates(t) :
         /\ i < j
         /\ ResolveReqsFor(t, i) = {}
         /\ ResolveReqsFor(t, j) # {}
    /\ Outcome(t).resolved >= 1

\* the first identifier field of a record that is present
FirstIdField(bug) ==
  IF IsDefined(bug.id) THEN bug.id
  ELSE IF IsDefined(bug.bugId) THEN bug.bugId
  ELSE IF IsDefined(bug.bugID) THEN bug.bugID
  ELSE IF IsDefined(bug.bug_id) THEN bug.bug_id
  ELSE bug.nestedId

NoExtractableId(bug) ==
  ~IsDefined(FirstIdField(bug)) \/ FirstIdField(bug)[1] <= 0

\* C5: the turn of the loop that meets a candidate with no positive numeric id
\* records it in errors with a null id and dispatches no request of any kind.
C5_MissingIdNoRequest ==
  [][\A t \in Tasks :
       (/\ IsBatch(t)
        /\ task[t].pc = "loop"
        /\ task[t].idx <= Len(task[t].candidates)
        /\ NoExtractableId(task[t].candidates[task[t].idx])
        /\ task[t]' # task[t]) =>
         /\ task[t].failed' =
              Append(task[t].failed, [id |-> Undefined, error |-> "MissingBugId"])
         /\ task[t].success' = task[t].success
         /\ task[t].reqs' = task[t].reqs
         /\ task[t].nResolveBug' = task[t].nResolveBug
         /\ InFlightOf(t)' = InFlightOf(t)]_vars

\* C5 witness: a batch went past a candidate without id and resolved another
C5_Witness ==
  \E t \in Tasks :
    /\ BatchReturned(t)
    /\ \E j \in 1..Len(task[t].failed) : task[t].failed[j].id = Undefined
    /\ Outcome(t).resolved >= 1
    /\ Cardinality(ResolveReqs(t)) < Len(task[t].candidates)

\* C6: the batch is strictly sequential: at most one of its requests is in
\* flight, a request in flight is the last one it dispatched, and the resolve
\* requests go out in the order of the list, each for the id of its candidate.
C6_Sequential ==
  \A t \in Tasks :
    IsBatch(t) =>
      /\ Cardinality(InFlightOf(t)) <= 1
      /\ \A p \in InFlightOf(t) : p[2] = Len(task[t].reqs)
      /\ \A n, m \in ResolveReqs(t) :
           n < m => task[t].reqs[n].cand < task[t].reqs[m].cand
      /\ \A n \in ResolveReqs(t) :
           /\ task[t].reqs[n].cand \in ValidCandidates(t)
           /\ task[t].reqs[n].id = getBugId(task[t].candidates[task[t].reqs[n].cand])[1]

\* C6 witness: the resolve request of a later candidate is in flight after
\* two earlier ones have completed
C6_Witness ==
  \E t \in Tasks :
    /\ IsBatch(t)
    /\ Cardinality(ResolveReqs(t)) = 3
    /\ \E n \in ResolveReqs(t) : <<t, n>> \in inflight

\* the list requests a task has dispatched
ListReqs(t) ==
  {n \in 1..Len(task[t].reqs) :
     task[t].reqs[n].kind = "api" /\ task[t].reqs[n].ctx \in {"list", "fallback"}}

\* C7: a batch calls the list step once, before any resolve request; when the
\* list step fails the batch fails with that error and no resolve request is
\* dispatched.
C7_ListOnceFirst ==
  /\ [](\A t \in Tasks :
          IsBatch(t) =>
            /\ task[t].nGetMyBugs = 1
            /\ \A n \in ResolveReqs(t) :
                 /\ ListReqs(t) # {}
                 /\ \A m \in ListReqs(t) : m < n
            /\ (task[t].pc = "done" /\ task[t].result.kind = "error") =>
                 /\ ResolveReqs(t) = {}
                 /\ task[t].nResolveBug = 0
                 /\ task[t].ctx.kind \in {"list", "fallback"}
                 /\ task[t].result.err = task[t].callRes.err)
  /\ [][\A t \in Tasks :
          (/\ IsBatch(t)
           /\ task[t].pc = "callRet"
           /\ task[t].ctx.kind \in {"list", "fallback"}
           /\ task[t].callRes.err # NoErr
           /\ ~UsesFallback(task[t])
           /\ task[t]' # task[t]) =>
            /\ task[t].pc' = "done"
            /\ task[t].result.kind' = "error"
            /\ task[t].result.err' = task[t].callRes.err
            /\ task[t].reqs' = task[t].reqs]_vars

\* C7 witness: a batch failed with the error of its list request
C7_Witness ==
  \E t \in Tasks :
    /\ IsBatch(t)
    /\ task[t].pc = "done"
    /\ task[t].result.kind = "error"
    /\ task[t].result.err.type = "Http"
    /\ ListReqs(t) # {}

IsGetToken(t) == task[t].op = "getToken"
TokenReturned(t) == IsGetToken(t) /\ task[t].pc = "done" /\ task[t].result.kind = "ok"

\* the caller of getToken found a token, timestamped, of age <= ttl
FoundFresh(t) ==
  /\ task[t].entry.tok # ""
  /\ task[t].entry.at # 0
  /\ task[t].entry.now - task[t].entry.at <= tokenTtlMs

CredentialsConfigured == auth.account # "" /\ auth.password # ""

\* the task has dispatched one request, a login
OneLogin(t) == Len(task[t].reqs) = 1 /\ task[t].reqs[1].kind = "login"

\* C8: getToken without force answers from the cache, with no login request,
\* exactly when a token is cached, timestamped and of age <= ttl; otherwise it
\* sends one login request (credentials being configured) and what it returns
\* has source "login".
C8_CacheOrLogin ==
  \A t \in Tasks :
    (IsGetToken(t) /\ ~task[t].entry.force) =>
      /\ FoundFresh(t) =>
           /\ TokenReturned(t)
           /\ task[t].result.source = "cache"
           /\ task[t].result.token = task[t].entry.tok
           /\ task[t].reqs = <<>>
      /\ ~FoundFresh(t) =>
           /\ Len(task[t].reqs) <= 1
           /\ CredentialsConfigured => OneLogin(t)
           /\ TokenReturned(t) => (task[t].result.source = "login" /\ OneLogin(t))

\* C8 witness: a second call at the very end of the TTL window is answered
\* from the cache
C8_Witness ==
  \E t \in Tasks :
    /\ TokenReturned(t)
    /\ ~task[t].entry.force
    /\ task[t].result.source = "cache"
    /\ task[t].entry.now - task[t].entry.at = tokenTtlMs

\* C9: getToken with force sends a login request whatever the age of the
\* cached token (credentials being configured), and when it returns the cache
\* holds the token and the time of that login.
C9_ForceAlwaysLogsIn ==
  \A t \in Tasks :
    (IsGetToken(t) /\ task[t].entry.force) =>
      /\ CredentialsConfigured => OneLogin(t)
      /\ TokenReturned(t) =>
           /\ task[t].result.source = "login"
           /\ OneLogin(t)
           /\ task[t].result.token = TokenIssuedAt(now)
           /\ cachedToken = task[t].result.token
           /\ cachedAt = now

\* C9 witness: a forced call found a fresh token and replaced it
C9_Witness ==
  \E t \in Tasks :
    /\ TokenReturned(t)
    /\ task[t].entry.force
    /\ FoundFresh(t)
    /\ task[t].result.source = "login"
    /\ cachedToken # task[t].entry.tok
    /\ cachedAt # task[t].entry.at

\* C10: when the account or the password is not configured, an operation
\* that needs a login fails with the missing-credentials error and no request
\* is dispatched.
C10_MissingCredentialsNoRequest ==
  \A t \in Tasks :
    (~CredentialsConfigured /\ task[t].op # "none") =>
      /\ inflight = {}
      /\ task[t].reqs = <<>>
      /\ task[t].pc \in {"done", "callRet"}
      /\ task[t].pc = "done" =>
           (task[t].result.kind = "error" /\ task[t].result.err = ErrMissingCredentials)
      /\ task[t].pc = "callRet" => task[t].callRes.err = ErrMissingCredentials

\* C10 witness: getToken failed for want of a password
C10_Witness ==
  \E t \in Tasks :
    /\ IsGetToken(t)
    /\ task[t].pc = "done"
    /\ auth.account # ""
    /\ auth.password = ""
    /\ task[t].result.err = ErrMissingCredentials


\* getToken has had the answer of its login
LoginAnswered(t) == IsGetToken(t) /\ task[t].pc = "done" /\ Len(task[t].reqs) > 0

\* the answer of the login was a success envelope holding no token under
\* token, data.token or data.session.token
AnswerHoldsNoToken(t) ==
  /\ LoginAnswered(t)
  /\ task[t].callRes.err = NoErr
  /\ ExtractToken(task[t].callRes.data) = ""

\* C11: getToken never returns successfully with an empty token: when the
\* login response holds no token in any of the three places it fails with the
\* token-field-missing error, and no step writes an empty token into the
\* cache (the failing step leaves the cache as it was).
C11_NoEmptyToken ==
  /\ [](\A t \in DOMAIN task :
          /\ TokenReturned(t) => task[t].result.token # ""
          /\ AnswerHoldsNoToken(t) =>
               (task[t].result.kind = "error" /\ task[t].result.err = ErrTokenFieldMissing))
  /\ [][/\ (cachedToken' # cachedToken \/ cachedAt' # cachedAt) => cachedToken' # ""
        /\ (\E t \in DOMAIN task : ~AnswerHoldsNoToken(t) /\ AnswerHoldsNoToken(t)')
             => UNCHANGED <<cachedToken, cachedAt>>]_vars

\* C11 witness: a login answered 200 with no token while a token was cached;
\* getToken failed and the cache still holds the earlier token
C11_Witness ==
  \E t \in DOMAIN task :
    /\ AnswerHoldsNoToken(t)
    /\ task[t].result.err = ErrTokenFieldMissing
    /\ task[t].entry.tok # ""
    /\ cachedToken = task[t].entry.tok
    /\ cachedAt = task[t].entry.at


----------------------------------------------------------------------------
(* Properties of the shared credential cache (ConcSpec) *)

\* some login of a caller completes in this step
SomeLoginCompletes ==
  \E t \in DOMAIN task : task[t].pc = "loginWait" /\ task'[t].pc # "loginWait"

\* C12: in every reachable state of two interleaved callers the cached token
\* and its timestamp are those of one successful login: the token is empty
\* exactly when the timestamp is 0, a cached token is the one issued at the
\* cached time, and the two change only together, in the step that completes
\* a login.
C12_CachePairWrittenTogether ==
  /\ [](/\ cachedToken = "" <=> cachedAt = 0
        /\ cachedToken # "" => cachedToken = TokenIssuedAt(cachedAt))
  /\ [][(cachedToken' # cachedToken \/ cachedAt' # cachedAt) =>
          /\ SomeLoginCompletes
          /\ cachedAt' = now
          /\ cachedToken' = TokenIssuedAt(now)]_vars

\* C12 witness: while one caller still waits for its login, the login of the
\* other has replaced an earlier token and its timestamp
C12_Witness ==
  \E t, u \in DOMAIN task :
    /\ t # u
    /\ task[t].pc = "loginWait"
    /\ TokenReturned(u)
    /\ task[u].result.source = "login"
    /\ task[u].entry.tok # ""
    /\ cachedToken = task[u].result.token
    /\ cachedToken # task[u].entry.tok
    /\ cachedAt # task[u].entry.at

\* an operation is entered in this step by a caller that cannot use the cache
EntersNeedingLogin(t) ==
  /\ task[t].pc = "idle"
  /\ task'[t].pc # "idle"
  /\ CredentialsConfigured
  /\ \/ tokenExpired(cachedToken, cachedAt, now)
     \/ (task'[t].op = "getToken" /\ task'[t].entry.force)

\* C13: token refresh is not single-flight.  A caller that finds the cache
\* expired dispatches a login request of its own, whether or not a login of
\* another caller is in flight; a getToken that returns after its login
\* returns the token of that login's answer with source "login", and the
\* step that completes a login leaves its token and time in the cache, so the
\* cache holds the token of the login that completed last.
C13_RefreshNotSingleFlight ==
  /\ [](\A t \in DOMAIN task :
          (TokenReturned(t) /\ Len(task[t].reqs) > 0) =>
             /\ task[t].result.source = "login"
             /\ task[t].result.token = ExtractToken(task[t].callRes.data))
  /\ [][\A t \in DOMAIN task :
          /\ EntersNeedingLogin(t) =>
               /\ task'[t].pc = "loginWait"
               /\ Len(task'[t].reqs) = 1
               /\ task'[t].reqs[1].kind = "login"
               /\ <<t, 1>> \in inflight' \ inflight
          /\ (task[t].pc = "loginWait" /\ IsGetToken(t) /\ TokenReturned(t)') =>
               /\ cachedToken' = task'[t].result.token
               /\ cachedAt' = now
          /\ (task[t].pc = "loginWait" /\ task'[t].pc = "apiWait") =>
               /\ task'[t].tokenInfo.source = "login"
               /\ cachedToken' = task'[t].tokenInfo.token
               /\ cachedAt' = now]_vars

\* C13 witness: a getToken entered at time 1 with an empty cache and was
\* answered at time 3; meanwhile a call logged in as well and was answered at
\* time 2.  Each holds the token of its own login and the cache holds the
\* later one.
C13_Witness ==
  \E t, u \in DOMAIN task :
    /\ t # u
    /\ TokenReturned(u)
    /\ ~task[u].entry.force
    /\ task[u].entry.tok = ""
    /\ task[u].entry.now = 1
    /\ now = 3
    /\ task[u].result.source = "login"
    /\ task[u].result.token = TokenIssuedAt(3)
    /\ task[t].op = "call"
    /\ task[t].pc = "apiWait"
    /\ task[t].tokenInfo = [token |-> TokenIssuedAt(2), source |-> "login"]
    /\ cachedToken = task[u].result.token

\* the API requests a caller has dispatched
ApiReqs(t) == {n \in 1..Len(task[t].reqs) : task[t].reqs[n].kind = "api"}

\* this step appends an API request to the log of caller t
DispatchesApi(t) ==
  /\ Len(task'[t].reqs) = Len(task[t].reqs) + 1
  /\ task'[t].reqs[Len(task'[t].reqs)].kind = "api"

\* C14: every API request dispatched by call carries a non-empty token, the
\* one returned by the token resolution that this call made just before: the
\* usable cached token, or the token of the login this call waited for.  When
\* the token resolution fails, call fails and no API request is dispatched.
C14_CallIsAuthenticated ==
  /\ [](\A t \in DOMAIN task : \A n \in ApiReqs(t) : task[t].reqs[n].token # "")
  /\ [][\A t \in DOMAIN task :
          /\ DispatchesApi(t) =>
               LET r == task'[t].reqs[Len(task'[t].reqs)]
               IN /\ r.token = task'[t].tokenInfo.token
                  /\ \/ /\ task[t].pc = "idle"
                        /\ task'[t].tokenInfo.source = "cache"
                        /\ ~tokenExpired(cachedToken, cachedAt, now)
                        /\ r.token = cachedToken
                     \/ /\ task[t].pc = "loginWait"
                        /\ task'[t].tokenInfo.source = "login"
                        /\ task[t].reqs[Len(task[t].reqs)].kind = "login"
                        /\ r.token = cachedToken'
          /\ (/\ task'[t].op = "call"
              /\ task[t].pc \in {"idle", "loginWait"}
              /\ task'[t].pc = "callRet"
              /\ task'[t].callRes.err.type
                   \in {"MissingCredentials", "TokenFieldMissing", "Http", "Timeout"}) =>
               /\ ApiReqs(t)' = {}
               /\ inflight' \subseteq inflight]_vars

\* C14 witness: of two interleaved calls one was sent with the token of its
\* own login and the other, entered later, with that token from the cache
C14_Witness ==
  \E t, u \in DOMAIN task :
    /\ t # u
    /\ task[t].op = "call" /\ task[u].op = "call"
    /\ task[t].pc = "apiWait" /\ task[u].pc = "apiWait"
    /\ task[t].tokenInfo.source = "login"
    /\ task[u].tokenInfo.source = "cache"
    /\ \E n \in ApiReqs(t), k \in ApiReqs(u) :
         /\ task[t].reqs[n].token = task[u].reqs[k].token
         /\ task[t].reqs[n].token # ""


----------------------------------------------------------------------------
(* Properties of the single operations (OpsSpec) *)

Done(t) == task[t].pc = "done"
Failed(t) == Done(t) /\ task[t].result.kind = "error"
Succeeded(t) == Done(t) /\ task[t].result.kind = "ok"

\* the verdict verifyBug reads from its result argument
VerdictOf(t) ==
  normalizeString(IF task[t].opArgs.result = "" THEN "pass" ELSE task[t].opArgs.result)

\* the path argument that the operation of caller t works with
UsedPath(t) ==
  CASE task[t].op \in {"call", "callWithRetry"} -> task[t].ctx.path
    [] task[t].op = "getMyBugs" -> task[t].args.listPath
    [] task[t].op = "verifyBug" ->
         IF VerdictOf(t) = "pass"
         THEN task[t].opArgs.closePath
         ELSE task[t].opArgs.activatePath
    [] OTHER -> task[t].opArgs.path

\* the other arguments of the operation are acceptable
ArgsValid(t) ==
  /\ task[t].op \in {"getBugDetail", "resolveBug", "closeBug", "verifyBug", "commentBug"}
       => ValidBugId(task[t].opArgs.id)
  /\ task[t].op = "commentBug" => Trim(task[t].opArgs.comment) # ""
  /\ task[t].op = "verifyBug"
       => VerdictOf(t) \in {"pass", "fail"}

GivenAbsolutePath(t) ==
  /\ task[t].op \notin {"none", "getToken", "batch"}
  /\ ArgsValid(t)
  /\ isProbablyAbsoluteUrl(UsedPath(t))

ApiReqsOf(t, kind) == {n \in ApiReqs(t) : task[t].reqs[n].ctx = kind}

\* verifyBug of caller t has sent nothing but one request of the given
\* action, to the path built from the given template
SentOnly(t, action, template) ==
  /\ ApiReqs(t) = ApiReqsOf(t, action)
  /\ Cardinality(ApiReqs(t)) <= 1
  /\ \A n \in ApiReqs(t) :
       task[t].reqs[n].path =
         buildBugTransitionPath(task[t].opArgs.id[1], template, action)
  /\ (Succeeded(t) \/ task[t].pc = "apiWait") => Cardinality(ApiReqs(t)) = 1
  /\ Succeeded(t) => task[t].result.action = action

\* C16: verifyBug with a result that reads "pass" sends the close request and
\* no activate request, with one that reads "fail" the activate request and no
\* close request (one request whenever it gets as far as sending, and always
\* when it succeeds); with any other result it fails with the
\* invalid-verify-result error at once, no request sent, the login included.
C16_VerifyDispatch ==
  \A t \in DOMAIN task :
    task[t].op = "verifyBug" =>
      /\ VerdictOf(t) = "pass" => SentOnly(t, "close", task[t].opArgs.closePath)
      /\ VerdictOf(t) = "fail" => SentOnly(t, "activate", task[t].opArgs.activatePath)
      /\ VerdictOf(t) \notin {"pass", "fail"} =>
           /\ Failed(t)
           /\ task[t].result.err = ErrInvalidVerifyResult
           /\ task[t].reqs = <<>>
           /\ inflight = {}

\* C16 witness: verifyBug with result "Fail" succeeded through the one
\* request it sent, to /bugs/1/activate
C16_Witness ==
  \E t \in DOMAIN task :
    /\ task[t].op = "verifyBug"
    /\ task[t].opArgs.result = "Fail"
    /\ Succeeded(t)
    /\ task[t].result.action = "activate"
    /\ Cardinality(ApiReqs(t)) = 1
    /\ \A n \in ApiReqs(t) :
         task[t].reqs[n].path = <<"/", "bugs", "/", "1", "/", "activate">>


\* a text argument with nothing but blanks in it counts as not given
Blank(text) == text \in {"", " "}

\* the text of an argument without the blanks around it
Bare(text) == CASE text = " A " -> "A" [] text = " B " -> "B" [] OTHER -> text

\* the comment of a resolve request is taken from exactly one source
CommentFromOneSource(c, a) ==
  /\ ~Blank(a.solution) =>
       /\ c = <<SolutionLabel, Bare(a.solution)>>
       /\ ~Includes(c, Bare(a.comment))
       /\ ~Includes(c, a.comment)
       /\ ~Includes(c, GeneratedPrefix)
  /\ (Blank(a.solution) /\ ~Blank(a.comment)) =>
       /\ c = <<Bare(a.comment)>>
       /\ ~Includes(c, SolutionLabel)
       /\ ~Includes(c, GeneratedPrefix)
  /\ (Blank(a.solution) /\ Blank(a.comment)) =>
       c = <<GeneratedPrefix, IF a.resolution = "" THEN "fixed" ELSE a.resolution>>

\* C17: the comment that resolveBug sends (and reports back) comes from
\* exactly one of three sources, in strict precedence: a non-blank solution
\* behind the fixed label, else a non-blank comment, else the generated text
\* that names the resolution code.  With solution "A" and comment "B" it is
\* the label followed by A and holds no B.
C17_ResolveCommentPrecedence ==
  \A t \in DOMAIN task :
    task[t].op = "resolveBug" =>
      /\ \A n \in ApiReqs(t) :
           /\ task[t].reqs[n].ctx = "resolve"
           /\ CommentFromOneSource(task[t].reqs[n].body.comment, task[t].opArgs)
      /\ Succeeded(t) =>
           /\ Cardinality(ApiReqs(t)) = 1
           /\ CommentFromOneSource(task[t].result.comment, task[t].opArgs)
           /\ \A n \in ApiReqs(t) : task[t].reqs[n].body.comment = task[t].result.comment

\* C17 witness: resolveBug with solution "A" and comment "B" succeeded; the
\* comment it sent is the label followed by A
C17_Witness ==
  \E t \in DOMAIN task :
    /\ task[t].op = "resolveBug"
    /\ task[t].opArgs.solution = "A"
    /\ task[t].opArgs.comment = "B"
    /\ Succeeded(t)
    /\ \E n \in ApiReqs(t) : task[t].reqs[n].body.comment = <<SolutionLabel, "A">>


IsComment(t) == task[t].op = "commentBug"

EndsInComment(path) ==
  Len(path) >= 2 /\ path[Len(path) - 1] = "/" /\ path[Len(path)] = "comment"

\* the path with its last piece, comment, turned into comments
Pluralized(path) == SubSeq(path, 1, Len(path) - 1) \o <<"comments">>

\* the request commentBug sent to its comment path was answered 404
Primary404(t) ==
  /\ IsComment(t)
  /\ ApiReqsOf(t, "comment") # {}
  /\ \/ task[t].ctx.kind = "comments"
     \/ /\ task[t].ctx.kind = "comment"
        /\ task[t].pc \in {"callRet", "done"}
        /\ task[t].callRes.err.status = 404

\* C18 as stated: whenever the comment request was answered 404, commentBug
\* ends having sent exactly one more request, to the pluralized path.
C18_RetryAlwaysSent ==
  \A t \in DOMAIN task :
    (Done(t) /\ Primary404(t)) =>
      /\ Cardinality(ApiReqsOf(t, "comments")) = 1
      /\ \A n \in ApiReqsOf(t, "comments") :
           task[t].reqs[n].path = Pluralized(task[t].primaryPath)

\* C18, amended: commentBug sends at most one request to its comment path and
\* at most one to the pluralized path, never more than two in all.  When the
\* comment request was answered 404 and the comment path ends in /comment, one
\* retry call is made against the path with /comments in its place: it sends
\* one request unless its own token resolution fails; its result is returned
\* when it succeeds and its error is the one surfaced when it fails.  When the
\* comment path does not end in /comment, the 404 is surfaced with no retry.
C18_RetryOnceOnPluralizedPath ==
  \A t \in DOMAIN task :
    IsComment(t) =>
      /\ ApiReqs(t) = ApiReqsOf(t, "comment") \cup ApiReqsOf(t, "comments")
      /\ Cardinality(ApiReqsOf(t, "comment")) <= 1
      /\ Cardinality(ApiReqsOf(t, "comments")) <= 1
      /\ \A n \in ApiReqsOf(t, "comments") :
           /\ EndsInComment(task[t].primaryPath)
           /\ task[t].reqs[n].path = Pluralized(task[t].primaryPath)
           /\ task[t].reqs[n].body = task[t].body
      /\ (Done(t) /\ Primary404(t) /\ EndsInComment(task[t].primaryPath)) =>
           /\ task[t].ctx.kind = "comments"
           /\ task[t].ctx.path = Pluralized(task[t].primaryPath)
           /\ \/ Cardinality(ApiReqsOf(t, "comments")) = 1
              \/ /\ Failed(t)
                 /\ task[t].result.err.type \in {"TokenFieldMissing", "Http", "Timeout"}
                 /\ task[t].reqs[Len(task[t].reqs)].kind = "login"
           /\ Succeeded(t) =>
                /\ task[t].result.path = Pluralized(task[t].primaryPath)
                /\ task[t].result.status = task[t].callRes.status
           /\ Failed(t) => task[t].result.err = task[t].callRes.err
      /\ (Done(t) /\ Primary404(t) /\ ~EndsInComment(task[t].primaryPath)) =>
           /\ Failed(t)
           /\ task[t].result.err = ErrHttp(404, FALSE)
           /\ ApiReqsOf(t, "comments") = {}

\* C18 witness: the comment request was answered 404, the retry on
\* /bugs/1/comments was answered 500, and that 500 is what commentBug failed
\* with, after two comment requests
C18_Witness ==
  \E t \in DOMAIN task :
    /\ Done(t) /\ Primary404(t)
    /\ Failed(t)
    /\ task[t].result.err = ErrHttp(500, FALSE)
    /\ Cardinality(ApiReqs(t)) = 2
    /\ \E n \in ApiReqsOf(t, "comments") :
         task[t].reqs[n].path = <<"/", "bugs", "/", "1", "/", "comments">>


\* the login requests a caller has dispatched
LoginReqs(t) == {n \in 1..Len(task[t].reqs) : task[t].reqs[n].kind = "login"}

\* C19: commentBug makes its fallback call only after the request to the
\* comment path itself was sent and answered 404, and getMyBugs only after the
\* list request itself was sent and answered that a product is needed; any
\* other failure of the first call (another status, a timeout, a failed
\* login) is the failure of the operation, unchanged, and no request follows
\* it.
C19_OnlyRecognizedTriggers ==
  \A t \in DOMAIN task :
    /\ (IsComment(t) /\ task[t].ctx.kind = "comments") =>
         ApiReqsOf(t, "comment") # {}
    /\ (task[t].op = "getMyBugs" /\ task[t].ctx.kind = "fallback") =>
         ApiReqsOf(t, "list") # {}
    /\ (Failed(t) /\ task[t].op \in {"commentBug", "getMyBugs"}
          /\ task[t].ctx.kind \in {"comment", "list"}) =>
         /\ task[t].result.err = task[t].callRes.err
         /\ Cardinality(ApiReqs(t)) <= 1
         /\ Cardinality(LoginReqs(t)) <= 1


IsGetMyBugs(t) == task[t].op = "getMyBugs"

\* C20: one getMyBugs sends at most one request to its primary path and at
\* most one to the product-scoped fallback path, two list requests at most;
\* when the fallback request fails, its error is what getMyBugs fails with
\* and nothing more is sent.
C20_FallbackAtMostOnce ==
  \A t \in DOMAIN task :
    IsGetMyBugs(t) =>
      /\ task[t].nGetMyBugs = 1
      /\ ApiReqs(t) = ApiReqsOf(t, "list") \cup ApiReqsOf(t, "fallback")
      /\ Cardinality(ApiReqsOf(t, "list")) <= 1
      /\ Cardinality(ApiReqsOf(t, "fallback")) <= 1
      /\ Cardinality(ApiReqs(t)) <= 2
      /\ \A n \in ApiReqsOf(t, "fallback") :
           /\ ApiReqsOf(t, "list") # {}
           /\ task[t].reqs[n].path = ProductBugsPath(task[t].effectiveProductId[1])
           /\ task[t].reqs[n].path # task[t].primaryPath
      /\ (Done(t) /\ task[t].ctx.kind = "fallback" /\ task[t].callRes.err # NoErr) =>
           /\ Failed(t)
           /\ task[t].result.err = task[t].callRes.err

\* C20 witness: the list request and then the fallback request were both
\* answered that a product is needed; getMyBugs failed with the second
\* answer after two list requests
C20_Witness ==
  \E t \in DOMAIN task :
    /\ IsGetMyBugs(t)
    /\ Failed(t)
    /\ task[t].ctx.kind = "fallback"
    /\ isNeedProductIdError(task[t].result.err)
    /\ Cardinality(ApiReqsOf(t, "list")) = 1
    /\ Cardinality(ApiReqsOf(t, "fallback")) = 1


\* the product getMyBugs works with: its own argument, else the configured one
KnownProduct(t) ==
  LET own == normalizePositiveInt(task[t].args.productId)
  IN IF IsDefined(own) THEN own ELSE normalizePositiveInt(defaultProductId)

\* the path of the first list request of getMyBugs
FirstListPath(t) == buildProductScopedBugsPath(KnownProduct(t), task[t].args.listPath)

\* a product-scoped variant exists and is not where the first request went
HasScopedVariant(t) ==
  /\ IsDefined(KnownProduct(t))
  /\ FirstListPath(t) # ProductBugsPath(KnownProduct(t)[1])

\* the list request of getMyBugs was sent and answered that a product is needed
PrimaryNeedsProduct(t) ==
  /\ IsGetMyBugs(t)
  /\ ApiReqsOf(t, "list") # {}
  /\ \/ task[t].ctx.kind = "fallback"
     \/ /\ task[t].ctx.kind = "list"
        /\ task[t].pc \in {"callRet", "done"}
        /\ task[t].callRes.err.needPid

\* C21 as stated: whenever the list request was answered that a product is
\* needed, getMyBugs ends having sent one more request, to a product-scoped
\* path.
C21_NeedProductAlwaysRetried ==
  \A t \in DOMAIN task :
    (Done(t) /\ PrimaryNeedsProduct(t)) =>
      /\ Cardinality(ApiReqsOf(t, "fallback")) = 1
      /\ \A n \in ApiReqsOf(t, "fallback") :
           /\ Len(task[t].reqs[n].path) = 6
           /\ task[t].reqs[n].path[2] = "products"

\* C21, amended: when the list request was answered that a product is needed,
\* a product id is known (argument or configuration) and the first request
\* did not already go to /products/{productId}/bugs, getMyBugs makes one retry
\* call against /products/{productId}/bugs: it sends one request unless its
\* own token resolution fails, its list is what getMyBugs returns when it
\* succeeds and its error what getMyBugs fails with when it does not.  When
\* no product id is known, or the first request went to the product-scoped
\* path already, the error is surfaced with no retry.
C21_ScopedRetryWhenProductKnown ==
  \A t \in DOMAIN task :
    IsGetMyBugs(t) =>
      /\ (Done(t) /\ PrimaryNeedsProduct(t) /\ HasScopedVariant(t)) =>
           /\ task[t].ctx.kind = "fallback"
           /\ task[t].ctx.path = ProductBugsPath(KnownProduct(t)[1])
           /\ Cardinality(ApiReqsOf(t, "list")) = 1
           /\ \/ Cardinality(ApiReqsOf(t, "fallback")) = 1
              \/ /\ Failed(t)
                 /\ task[t].result.err.type \in {"TokenFieldMissing", "Http", "Timeout"}
                 /\ task[t].reqs[Len(task[t].reqs)].kind = "login"
           /\ \A n \in ApiReqsOf(t, "fallback") :
                task[t].reqs[n].path = ProductBugsPath(KnownProduct(t)[1])
           /\ Succeeded(t) =>
                /\ task[t].result.status = task[t].callRes.status
                /\ task[t].result.list.total
                     = Len(parseBugsFromResponse(task[t].callRes.data))
           /\ Failed(t) => task[t].result.err = task[t].callRes.err
      /\ (Done(t) /\ PrimaryNeedsProduct(t) /\ ~HasScopedVariant(t)) =>
           /\ Failed(t)
           /\ task[t].result.err.needPid
           /\ ApiReqsOf(t, "fallback") = {}
           /\ Cardinality(ApiReqs(t)) = 1

\* C21 witness: getMyBugs with product 1 on /mybugs was answered that a
\* product is needed, retried on /products/1/bugs and returned the two
\* records of the retry's answer
C21_Witness ==
  \E t \in DOMAIN task :
    /\ Done(t) /\ PrimaryNeedsProduct(t)
    /\ task[t].args.listPath = CustomBugsPath
    /\ Succeeded(t)
    /\ task[t].result.list.total = 2
    /\ \E n \in ApiReqsOf(t, "fallback") :
         task[t].reqs[n].path = <<"/", "products", "/", "1", "/", "bugs">>


\* lower case of the values the records and the filters of the model carry
Lower(x) == CASE x = "Active" -> "active" [] x = "ME" -> "me" [] OTHER -> x

\* the assignee getMyBugs filters by: its argument, else the account
FilterAssignee(t) ==
  IF task[t].args.assignedTo # "" THEN task[t].args.assignedTo ELSE auth.account

\* the words of the fields the keyword is searched in, in lower case
Searched(bug) ==
  {bug.title[i] : i \in 1..Len(bug.title)}
    \cup ({Lower(bug.status), Lower(bug.assignedTo), Lower(bug.owner)} \ {""})

\* the record passes the filters getMyBugs of caller t was given
PassesFilters(bug, t) ==
  /\ task[t].args.status # "" => Lower(bug.status) = Lower(task[t].args.status)
  /\ FilterAssignee(t) # "" =>
       Lower(IF bug.assignedTo # "" THEN bug.assignedTo ELSE bug.owner)
         = Lower(FilterAssignee(t))
  /\ \A i \in 1..Len(task[t].args.keyword) : task[t].args.keyword[i] \in Searched(bug)

\* the list the upstream answered the last list request of caller t with
UpstreamList(t) == parseBugsFromResponse(task[t].callRes.data)

\* the number of records of a list with the given property
CountOf(list, P(_)) == Cardinality({i \in 1..Len(list) : P(list[i])})

\* C22: every record in the result of getMyBugs is one of the records the
\* upstream returned and passes the status, assignee and keyword filters;
\* total is the number of records the upstream returned, matched the number
\* of those that pass the filters and the length of the returned list, so
\* matched <= total.
C22_ClientSideFilter ==
  \A t \in DOMAIN task :
    (IsGetMyBugs(t) /\ Succeeded(t)) =>
      LET res == task[t].result.list
          Passes(bug) == PassesFilters(bug, t)
      IN /\ \A i \in 1..Len(res.bugs) :
              /\ Passes(res.bugs[i])
              /\ \E j \in 1..Len(UpstreamList(t)) : UpstreamList(t)[j] = res.bugs[i]
         /\ res.total = Len(UpstreamList(t))
         /\ res.matched = CountOf(UpstreamList(t), Passes)
         /\ res.matched = Len(res.bugs)
         /\ res.matched <= res.total

\* C22 witness: getMyBugs with status "active" was answered three active and
\* two resolved records of the caller: matched is 3 and total is 5
C22_Witness ==
  \E t \in DOMAIN task :
    LET IsActive(bug) == bug = bugB
        IsResolved(bug) == bug = bugResolved
    IN /\ IsGetMyBugs(t) /\ Succeeded(t)
       /\ task[t].args.status = "active"
       /\ CountOf(UpstreamList(t), IsActive) = 3
       /\ CountOf(UpstreamList(t), IsResolved) = 2
       /\ task[t].result.list.total = 5
       /\ task[t].result.list.matched = 3


----------------------------------------------------------------------------
(* Properties of the transport (TransportSpec, ExchangeSpec) *)

\* the last call of caller t ended in an exchange that was answered
Answered(t) == task[t].resp.kind = "response"

\* the number of characters of the response text that the error holds in
\* its message, the marker included
ExcerptLen(t) ==
  task[t].callRes.excerpt.kept
    + (IF task[t].callRes.excerpt.marker THEN MarkerLen ELSE 0)

NonSuccess(t) == Answered(t) /\ task[t].resp.status \notin 200..299

\* C23 as stated: for a status outside 200..299 the exchange fails with an
\* error that carries the status, and what the error carries of the body, as
\* its data and in its message, is at most 2000 characters long.
C23_ErrorBodyAtMost2000 ==
  \A t \in DOMAIN task :
    NonSuccess(t) =>
      /\ task[t].callRes.err = ErrHttp(task[t].resp.status, FALSE)
      /\ task[t].callRes.len <= 2000
      /\ ExcerptLen(t) <= 2000

\* C23, amended: for a status outside 200..299 the exchange fails with an
\* error that carries the status, the decoded body in full, and in its message
\* the first 2000 characters of the response text, followed by a marker of 14
\* characters when the text is longer; the error is what call fails with.  An
\* exchange settles with the success envelope only for a status in 200..299.
C23_HttpErrorCarriesStatusAndBody ==
  \A t \in DOMAIN task :
    /\ NonSuccess(t) =>
         /\ task[t].callRes.err = ErrHttp(task[t].resp.status, FALSE)
         /\ task[t].callRes.status = task[t].resp.status
         /\ task[t].callRes.len = task[t].resp.text.len
         /\ task[t].callRes.excerpt.kept = Min(task[t].resp.text.len, 2000)
         /\ task[t].callRes.excerpt.marker <=> task[t].resp.text.len > 2000
         /\ ExcerptLen(t) <= 2000 + MarkerLen
         /\ Done(t) =>
              /\ Failed(t)
              /\ task[t].result.err.status = task[t].resp.status
    /\ (Answered(t) /\ task[t].callRes.err = NoErr) =>
         /\ task[t].resp.status \in 200..299
         /\ task[t].callRes.status = task[t].resp.status
    /\ Succeeded(t) => (Answered(t) /\ task[t].resp.status \in 200..299)

\* C23 witness: a request was answered 404 with a text of 2001 characters;
\* call failed with status 404, the error carrying all 2001 characters as
\* its data and 2000 of them and the marker in its message
C23_Witness ==
  \E t \in DOMAIN task :
    /\ Failed(t)
    /\ task[t].resp.status = 404
    /\ task[t].resp.text.len = 2001
    /\ task[t].result.err = ErrHttp(404, FALSE)
    /\ task[t].callRes.len = 2001
    /\ task[t].callRes.excerpt = [kept |-> 2000, marker |-> TRUE]


\* the content type the response declares names JSON
JsonDeclared(t) ==
  \E i \in 1..Len(task[t].resp.contentType) :
    task[t].resp.contentType[i] = "application/json"

\* the text of the response is well-formed JSON
Parses(t) == task[t].resp.text.parsed # <<>>

\* C24: the body an exchange settles with is the value the text parses to
\* exactly when the response declares JSON and the text parses; when the
\* response declares something else or nothing, and when it declares JSON
\* and the text does not parse, the body is the raw text, and the exchange
\* settles as the status alone decides: with the envelope for 200..299 and
\* with the HTTP error of that status otherwise, never with another error.
C24_JsonOnlyWhenDeclared ==
  \A t \in DOMAIN task :
    Answered(t) =>
      /\ ~task[t].callRes.isText <=> (JsonDeclared(t) /\ Parses(t))
      /\ ~task[t].callRes.isText => task[t].callRes.data = task[t].resp.text.parsed[1]
      /\ task[t].callRes.isText =>
           /\ task[t].callRes.data = EmptyBody
           /\ task[t].callRes.len = task[t].resp.text.len
      /\ task[t].callRes.err =
           IF task[t].resp.status \in 200..299
           THEN NoErr
           ELSE ErrHttp(task[t].resp.status, FALSE)

\* C24 witness: a request was answered 404 with a text declared as JSON that
\* does not parse; call failed with the HTTP error of status 404, which
\* carries the raw text
C24_Witness ==
  \E t \in DOMAIN task :
    /\ Failed(t)
    /\ Answered(t)
    /\ task[t].resp.status = 404
    /\ JsonDeclared(t) /\ ~Parses(t)
    /\ task[t].resp.text.len > 0
    /\ task[t].result.err = ErrHttp(404, FALSE)
    /\ task[t].callRes.isText


\* the timer fired on the last exchange of caller t, and call has settled
TimerFired(t) ==
  /\ task[t].resp.kind = "abort"
  /\ task[t].pc \in {"callRet", "sleep", "done"}

\* the calls the operation of caller t has made so far
CallsMade(t) ==
  CASE task[t].op = "callWithRetry" -> task[t].attempt + 1
    [] task[t].op = "call" -> 1
    [] OTHER -> 0

\* what holds of the exchanges in every state
ExchangesOneByOne ==
  \A t \in DOMAIN task :
    /\ TimerFired(t) =>
         /\ task[t].callRes.err = ErrTimeout
         /\ \A r \in inflight : r[1] # t
         /\ Done(t) => (Failed(t) /\ task[t].result.err = ErrTimeout)
    /\ Cardinality(ApiReqs(t)) <= CallsMade(t)
    /\ Cardinality(LoginReqs(t)) <= CallsMade(t)
    /\ \A r \in inflight : r[1] = t => r[2] = Len(task[t].reqs)

\* C25: every exchange ends, with its response or with the timer firing;
\* when the timer fires the request is no longer in flight and call fails
\* with the timeout error; one invocation of the transport sends one request
\* and none after it: a call sends at most one login and one API request,
\* and never has two requests in flight.
C25_ExchangeBoundedByTimer ==
  /\ []ExchangesOneByOne
  /\ (inflight # {}) ~> (inflight = {})

\* C25 witness: call sent one request, the timer fired, and the timeout
\* error is what call failed with
C25_Witness ==
  \E t \in DOMAIN task :
    /\ task[t].op = "call"
    /\ TimerFired(t)
    /\ Failed(t)
    /\ task[t].result.err = ErrTimeout
    /\ Cardinality(ApiReqs(t)) = 1
    /\ inflight = {}


----------------------------------------------------------------------------
(* Properties of the URL resolver (UrlSpec) *)

\* buildUrl of caller t has built a URL
Built(t) ==
  /\ task[t].op = "buildUrl"
  /\ task[t].pc = "done"
  /\ task[t].built.err = NoErr

\* a slash in front when there is none, nothing else changed
WithLeadingSlash(s) == IF s # <<>> /\ s[1] = "/" THEN s ELSE <<"/">> \o s

\* the path of the base URL itself: what follows scheme://host
BasePath(base) == SubSeq(base, 5, Len(base))

\* no ".." segment and no query in the text
NoDotsNoQuery(s) == \A i \in 1..Len(s) : s[i] \notin {"..", ".", QueryPiece}

\* exactly one slash at piece k of s
OneSlashAt(s, k) ==
  /\ 1 < k /\ k <= Len(s)
  /\ s[k] = "/"
  /\ s[k - 1] # "/"
  /\ k < Len(s) => s[k + 1] # "/"

----------------------------------------------------------------------------
(* Properties of the get_token tool (ToolSpec) *)

\* the get_token tool of caller t has answered
ToolAnswered(t) == task[t].op = "get_token" /\ task[t].pc = "done"

\* C27: with the expose-token flag off, the token text in the answer of the
\* get_token tool never holds the complete token, whatever its length, and
\* the answer is the complete token only with the flag on.
C27_MaskedNeverHoldsToken ==
  \A t \in DOMAIN task :
    ToolAnswered(t) =>
      /\ ~task[t].exposeToken => ~IncludesSeq(task[t].output.token, task[t].result.token)
      /\ task[t].output.token = task[t].result.token => task[t].exposeToken
      /\ task[t].exposeToken => task[t].output.token = task[t].result.token


----------------------------------------------------------------------------
(* Further properties of the single operations (OpsSpec) *)

\* not a finite number, or a number below 1
BadId(id) == id = <<>> \/ id[1] < 1

\* the operation of caller t was given an identifier it has to reject;
\* verifyBug looks at its result first
GivenBadId(t) ==
  /\ task[t].op \in {"getBugDetail", "resolveBug", "closeBug", "verifyBug", "commentBug"}
  /\ BadId(task[t].opArgs.id)
  /\ task[t].op = "verifyBug" => VerdictOf(t) \in {"pass", "fail"}

\* commentBug of caller t was given a good identifier and a blank comment
GivenBlankComment(t) ==
  /\ task[t].op = "commentBug"
  /\ ~BadId(task[t].opArgs.id)
  /\ Blank(task[t].opArgs.comment)

\* the operation has failed with err on its arguments alone
RefusedWith(t, err) ==
  /\ task[t].pc \in {"callRet", "done"}
  /\ task[t].callRes.err = err
  /\ Done(t) => (Failed(t) /\ task[t].result.err = err)
  /\ task[t].reqs = <<>>
  /\ \A r \in inflight : r[1] # t

\* C28: getBugDetail, resolveBug, closeBug, verifyBug (for closeBug and
\* activateBug) and commentBug given an identifier that is no number or is
\* below 1 fail with the invalid-id error, and commentBug given a blank
\* comment with the empty-comment error, without any request, the login
\* included; no step of such an operation changes the cached token or its
\* timestamp.
C28_ArgumentsRejectedBeforeAnyRequest ==
  /\ [](\A t \in DOMAIN task :
          /\ GivenBadId(t) => RefusedWith(t, ErrInvalidBugId)
          /\ GivenBlankComment(t) => RefusedWith(t, ErrEmptyComment))
  /\ [][\A t \in DOMAIN task :
          (GivenBadId(t)' \/ GivenBlankComment(t)') =>
            (cachedToken' = cachedToken /\ cachedAt' = cachedAt)]_vars

\* C28 witness: with a token in the cache, verifyBug with result "fail" and
\* the identifier 0 has failed with the invalid-id error, nothing sent
C28_Witness ==
  \E t \in DOMAIN task :
    /\ task[t].op = "verifyBug"
    /\ task[t].opArgs.result = "fail"
    /\ task[t].opArgs.id = <<0>>
    /\ Failed(t)
    /\ task[t].result.err = ErrInvalidBugId
    /\ task[t].reqs = <<>>
    /\ cachedToken # ""


\* the first value of a sequence of optional values that is there, <<>> when
\* none is
FirstPresent(places) ==
  LET there == {i \in DOMAIN places : places[i] # <<>>}
  IN IF there = {} THEN <<>>
     ELSE places[CHOOSE i \in there : \A j \in there : i <= j]

\* v when it is an object in the sense of typeof (an array is one), else <<>>
IfObject(v) == IF v # <<>> /\ v[1].type \in {"object", "array"} THEN v ELSE <<>>

\* the decoded body of the last response when it is an object and no array
PlainBody(t) ==
  IF /\ ~task[t].callRes.isText
     /\ ~task[t].callRes.data.isNull
     /\ task[t].callRes.data.top = <<>>
  THEN <<WholeBody>> ELSE <<>>

\* getMyBugs, or getBugDetail, of caller t has got a success response and
\* has ended
ListAnswered(t) ==
  task[t].op = "getMyBugs" /\ Done(t) /\ task[t].reqs # <<>> /\ task[t].callRes.err = NoErr
DetailAnswered(t) ==
  task[t].op = "getBugDetail" /\ Done(t) /\ task[t].reqs # <<>> /\ task[t].callRes.err = NoErr

\* what getMyBugs and getBugDetail report when the list, or the record, is
\* looked for in the given places
ReportsListOf(t, places) ==
  LET list == FirstPresent(places)
  IN /\ Succeeded(t)
     /\ task[t].result.list.total = (IF list = <<>> THEN 0 ELSE Len(list[1]))
     /\ list = <<>> => task[t].result.list.matched = 0
ReportsRecordOf(t, places) ==
  LET record == FirstPresent(places)
  IN /\ Succeeded(t)
     /\ task[t].result.found = (record # <<>>)
     /\ task[t].result.bug = record

\* C29 as stated: the list is looked for in three places (the field bugs, the
\* field data, the body itself), the record in three places (the field bug,
\* the field data, the body itself).
C29_ThreePlaces ==
  \A t \in DOMAIN task :
    LET d == task[t].callRes.data
    IN /\ ListAnswered(t) => ReportsListOf(t, <<d.bugs, d.data, d.top>>)
       /\ DetailAnswered(t) =>
            ReportsRecordOf(t, <<IfObject(d.bug), d.dataObject, PlainBody(t)>>)

\* C29: neither extractor fails on any decoded body, text and null included.
\* getMyBugs counts the first array among bugs, data.bugs, data and the body
\* itself, and reports total = 0 and matched = 0 when there is none;
\* getBugDetail returns the first of: bug when it is an object or an array,
\* data.bug likewise, data when it is an object and no array, the body when
\* it is an object and no array; it reports found = false when there is
\* none, else found = true.
C29_FourPlaces ==
  \A t \in DOMAIN task :
    LET d == task[t].callRes.data
    IN /\ ListAnswered(t) => ReportsListOf(t, <<d.bugs, d.dataBugs, d.data, d.top>>)
       /\ DetailAnswered(t) =>
            ReportsRecordOf(t, <<IfObject(d.bug), IfObject(d.dataBug),
                                 d.dataObject, PlainBody(t)>>)

\* C29 witness: getBugDetail got a 200 whose body is the JSON null and has
\* reported found = false
C29_Witness ==
  \E t \in DOMAIN task :
    /\ DetailAnswered(t)
    /\ task[t].callRes.data.isNull
    /\ Succeeded(t)
    /\ ~task[t].result.found

\* further cases of C29: a list under data.bugs is counted, a record under
\* data.bug is returned, a body of raw text gives the empty list
C29_NestedListCounted ==
  \E t \in DOMAIN task :
    /\ ListAnswered(t) /\ task[t].callRes.data.bugs = <<>>
    /\ task[t].callRes.data.dataBugs # <<>> /\ task[t].result.list.total > 0
C29_NestedRecordReturned ==
  \E t \in DOMAIN task :
    /\ DetailAnswered(t) /\ task[t].result.bug = <<nestedBugObject>>
C29_TextGivesEmptyList ==
  \E t \in DOMAIN task :
    /\ ListAnswered(t) /\ task[t].callRes.isText /\ task[t].result.list.total = 0


\* the cached token is there and not older than the TTL
CacheFresh == cachedToken # "" /\ now - cachedAt <= tokenTtlMs

\* the requests of kind k that caller t sends in this step
SendsNow(t, k) ==
  {n \in DOMAIN task'[t].reqs : n > Len(task[t].reqs) /\ task'[t].reqs[n].kind = k}

\* a request of kind k of caller t is answered in this step
AnsweredNow(t, k) ==
  \E n \in DOMAIN task[t].reqs :
    /\ <<t, n>> \in inflight
    /\ <<t, n>> \notin inflight'
    /\ task[t].reqs[n].kind = k

\* C30: the cached token and its timestamp change only in the step in which
\* a login is answered, and then to a non-empty token and the time of the
\* answer; the step in which an API request is answered, whatever the status
\* (401 and 403 included), changes neither; and a call entered while the
\* cached token is within its TTL sends no login and sends its API request
\* with the cached token.
C30_CacheWrittenByLoginOnly ==
  /\ [][(cachedToken' # cachedToken \/ cachedAt' # cachedAt) =>
          /\ \E t \in DOMAIN task : AnsweredNow(t, "login")
          /\ cachedToken' # ""
          /\ cachedAt' = now]_vars
  /\ [][\A t \in DOMAIN task :
          AnsweredNow(t, "api") =>
            (cachedToken' = cachedToken /\ cachedAt' = cachedAt)]_vars
  /\ [][\A t \in DOMAIN task :
          (CacheFresh /\ ~AnsweredNow(t, "login")) =>
            /\ SendsNow(t, "login") = {}
            /\ \A n \in SendsNow(t, "api") : task'[t].reqs[n].token = cachedToken]_vars

\* C30 witness: the first attempt of callWithRetry logged in and was answered
\* 403; the second attempt has sent its request with the token still in the
\* cache, and no second login
C30_Witness ==
  \E t \in DOMAIN task :
    /\ task[t].op = "callWithRetry"
    /\ task[t].pc = "apiWait"
    /\ task[t].attempt = 1
    /\ task[t].callRes.err.status = 403
    /\ Len(task[t].reqs) = 3
    /\ task[t].reqs[1].kind = "login"
    /\ task[t].reqs[2].kind = "api"
    /\ task[t].reqs[3].kind = "api"
    /\ task[t].reqs[3].token = task[t].reqs[2].token
    /\ cachedToken = task[t].reqs[2].token


----------------------------------------------------------------------------
(* callWithRetry *)

\* what callWithRetry of caller t promises about its attempts
RetryContract(t) ==
  /\ task[t].nCall <= task[t].retries + 1
  /\ Done(t) => task[t].nCall >= 1
  /\ Cardinality({r \in inflight : r[1] = t}) <= 1
  /\ Succeeded(t) =>
       /\ task[t].callRes.err = NoErr
       /\ task[t].result.status = task[t].callRes.status
  /\ Failed(t) =>
       /\ task[t].nCall = task[t].retries + 1
       /\ task[t].callRes.err # NoErr
       /\ task[t].result.err = task[t].callRes.err
  /\ (task[t].retries = 0 /\ Done(t)) => task[t].nCall = 1

\* a further attempt starts only after the one before has failed, and none
\* after an attempt that succeeded
RetryOrder(t) ==
  (task'[t].nCall > task[t].nCall /\ task[t].nCall >= 1) =>
    /\ task[t].pc = "sleep"
    /\ task[t].callRes.err # NoErr
    /\ \A r \in inflight : r[1] # t

\* C31: callWithRetry makes at least one and at most retries + 1 attempts of
\* call, one after the other; it returns the result of the first attempt that
\* succeeds and then makes no other, raises the error of the last attempt
\* when all fail, and with retries = 0 makes exactly one attempt.
C31_OneToRetriesPlusOneAttempts ==
  /\ [](\A t \in DOMAIN task : task[t].op = "callWithRetry" => RetryContract(t))
  /\ [][\A t \in DOMAIN task : task[t].op = "callWithRetry" => RetryOrder(t)]_vars

\* the same for a number of retries that is not negative
RetryContractWhenNotNegative ==
  /\ [](\A t \in DOMAIN task :
          (task[t].op = "callWithRetry" /\ task[t].retries >= 0) => RetryContract(t))
  /\ [][\A t \in DOMAIN task : task[t].op = "callWithRetry" => RetryOrder(t)]_vars

\* callWithRetry has made its second attempt and has returned its result
RetrySecondAttemptSucceeds ==
  \E t \in DOMAIN task :
    task[t].op = "callWithRetry" /\ Succeeded(t) /\ task[t].nCall = 2


----------------------------------------------------------------------------
(* Failed logins and the cache (ConcSpec) *)

\* the error getToken has raised to caller t: to the caller itself, or into
\* call
TokenErrorOf(tr) == IF tr.op = "getToken" THEN tr.result.err ELSE tr.callRes.err

\* the login of caller t is answered in this step and getToken fails on it
LoginFailsNow(t) ==
  /\ AnsweredNow(t, "login")
  /\ TokenErrorOf(task'[t]).type \in {"Http", "Timeout", "TokenFieldMissing"}

\* caller t enters getToken in this step and is refused for its credentials
RefusedForCredentialsNow(t) ==
  /\ task[t].pc = "idle"
  /\ TokenErrorOf(task'[t]) = ErrMissingCredentials

\* caller t calls getToken without force in this step
AsksTokenNow(t) ==
  /\ task[t].pc = "idle"
  /\ task'[t].op = "getToken"
  /\ ~task'[t].entry.force

\* C32: the step in which a login attempt fails (credentials missing, HTTP
\* error, timeout, no token in the answer), forced or not, leaves the cached
\* token and its timestamp as they were; and a getToken without force that
\* finds a cached token within its TTL returns that token with source
\* "cache", whatever failed before.
C32_FailedLoginKeepsCache ==
  /\ [][\A t \in DOMAIN task :
          (LoginFailsNow(t) \/ RefusedForCredentialsNow(t)) =>
            (cachedToken' = cachedToken /\ cachedAt' = cachedAt)]_vars
  /\ [][\A t \in DOMAIN task :
          (AsksTokenNow(t) /\ CacheFresh) =>
            /\ task'[t].pc = "done"
            /\ task'[t].result.kind = "ok"
            /\ task'[t].result.token = cachedToken
            /\ task'[t].result.source = "cache"
            /\ task'[t].reqs = <<>>]_vars

\* C32 witness: a forced getToken found a token in the cache, sent its login
\* and failed on the answer; the cache holds what it held at the entry
C32_Witness ==
  \E t \in DOMAIN task :
    /\ task[t].op = "getToken"
    /\ task[t].entry.force
    /\ task[t].entry.tok # ""
    /\ Failed(t)
    /\ task[t].result.err.type \in {"Http", "Timeout", "TokenFieldMissing"}
    /\ task[t].reqs # <<>>
    /\ cachedToken = task[t].entry.tok
    /\ cachedAt = task[t].entry.at


----------------------------------------------------------------------------
(* call with a path that buildUrl refuses (OpsSpec) *)

\* caller t runs call with the empty path or with an absolute URL
CallOfBadPath(tr) ==
  /\ tr.op = "call"
  /\ tr.ctx.path \in {<<>>, AbsolutePath}

\* C33 as stated: a call with an empty or absolute path fails without any
\* request, the login included, and no step of it changes the cached token
\* or its timestamp.
C33_BadPathNoRequestAtAll ==
  /\ [](\A t \in DOMAIN task :
          CallOfBadPath(task[t]) =>
            /\ task[t].reqs = <<>>
            /\ Done(t) => Failed(t))
  /\ [][\A t \in DOMAIN task :
          CallOfBadPath(task[t]) =>
            (cachedToken' = cachedToken /\ cachedAt' = cachedAt)]_vars

\* C33, amended: a call with an empty or absolute path fails and never sends
\* an API request.  It resolves the token first: entered with a cached token
\* within its TTL it fails at once with the path error, nothing sent and the
\* cache unchanged; entered without one, and the credentials configured, it
\* sends the login, and only a login that succeeds lets it reach the path
\* error, with the new token in the cache.
C33_BadPathNoApiRequest ==
  /\ [](\A t \in DOMAIN task :
          CallOfBadPath(task[t]) =>
            /\ ApiReqs(t) = {}
            /\ Cardinality(LoginReqs(t)) <= 1
            /\ Done(t) => Failed(t)
            /\ (Failed(t) /\ task[t].result.err \in {ErrPathRequired, ErrPathAbsolute}
                  /\ task[t].reqs # <<>>) =>
                 (cachedToken # "" /\ cachedAt = now))
  /\ [][\A t \in DOMAIN task :
          (task[t].pc = "idle" /\ CallOfBadPath(task'[t])) =>
            IF CacheFresh
            THEN /\ task'[t].reqs = <<>>
                 /\ task'[t].pc = "callRet"
                 /\ task'[t].callRes.err \in {ErrPathRequired, ErrPathAbsolute}
                 /\ cachedToken' = cachedToken /\ cachedAt' = cachedAt
            ELSE IF CredentialsConfigured
                 THEN /\ Len(task'[t].reqs) = 1
                      /\ task'[t].reqs[1].kind = "login"
                      /\ task'[t].pc = "loginWait"
                 ELSE /\ task'[t].reqs = <<>>
                      /\ task'[t].callRes.err = ErrMissingCredentials]_vars

\* C33 witness: call with the empty path found no usable token, logged in,
\* and then failed with the path error; the cache holds the new token
C33_Witness ==
  \E t \in DOMAIN task :
    /\ task[t].op = "call"
    /\ task[t].ctx.path = <<>>
    /\ Failed(t)
    /\ task[t].result.err = ErrPathRequired
    /\ OneLogin(t)
    /\ cachedToken = task[t].tokenInfo.token
    /\ task[t].tokenInfo.source = "login"

\* a call with the empty path has failed with nothing sent
BadPathFailsOnFreshCache ==
  \E t \in DOMAIN task :
    /\ CallOfBadPath(task[t]) /\ Failed(t) /\ task[t].reqs = <<>>
    /\ task[t].result.err = ErrPathRequired


----------------------------------------------------------------------------
(* The URL of the login request (UrlSpec) *)

\* the path call is given for the token endpoint
TokensPath == <<"/", "tokens">>

\* the URL of the login request of caller t has been built
LoginUrlBuilt(t) == task[t].op = "buildUrl" /\ task[t].pc = "loginUrl"

\* the URL call would build for /tokens with the configuration of caller t
ApiTokensUrl(t) == buildUrlFrom(task[t].base, task[t].prefix, TokensPath).url

\* C34: with the default token path the URL of the login request is the URL
\* that call builds for the path /tokens, for every base URL, one with a path
\* of its own included.
C34_LoginUrlIsApiTokensUrl ==
  \A t \in DOMAIN task :
    LoginUrlBuilt(t) => task[t].loginUrl.href = ApiTokensUrl(t)

\* the same for a base URL without a path of its own and a prefix that is
\* not empty
LoginUrlIsApiTokensUrlOnBareHost ==
  \A t \in DOMAIN task :
    (LoginUrlBuilt(t) /\ task[t].base = baseUrl /\ task[t].prefix # <<>>) =>
      task[t].loginUrl.href = ApiTokensUrl(t)

\* for a base URL with a path of its own the login leaves that path
LoginUrlDropsBasePath ==
  \A t \in DOMAIN task :
    (LoginUrlBuilt(t) /\ task[t].base # baseUrl) =>
      /\ task[t].loginUrl.href # ApiTokensUrl(t)
      /\ ~Includes(task[t].loginUrl.pathname, "zentao")
      /\ Includes(ApiTokensUrl(t), "zentao")


----------------------------------------------------------------------------
(* The timeout timer (TransportSpec) *)

\* the requests of caller t whose exchange is pending
PendingOf(t) == {n \in DOMAIN task[t].reqs : <<t, n>> \in inflight}

\* the exchange of request n of caller t completes in this step
CompletesNow(t, n) == <<t, n>> \in inflight /\ <<t, n>> \notin inflight'

\* a timeout is reported to caller t in this step
TimeoutReportedNow(t) ==
  /\ task'[t].resp.kind = "abort"
  /\ task'[t].resp # task[t].resp

\* C35: the timers armed are those of the pending exchanges and no others, so
\* none remains for an exchange that has completed, however it completed
\* (success, HTTP error, network failure, timeout); the step that completes
\* an exchange disarms its timer, and a timeout is reported only by the step
\* that completes an exchange whose timer was armed.
C35_TimerCancelledOnEveryExit ==
  /\ [](\A t \in DOMAIN task : task[t].timers = PendingOf(t))
  /\ [][\A t \in DOMAIN task :
          /\ \A n \in DOMAIN task[t].reqs :
               CompletesNow(t, n) =>
                 (n \in task[t].timers /\ n \notin task'[t].timers)
          /\ TimeoutReportedNow(t) =>
               \E n \in task[t].timers : CompletesNow(t, n)]_vars

\* C35 witness: after an exchange that ended in a network failure and a
\* second one that timed out, no timer is armed
C35_Witness ==
  \E t \in DOMAIN task :
    /\ task[t].op = "callWithRetry"
    /\ task[t].nCall = 2
    /\ task[t].pc = "callRet"
    /\ task[t].resp.kind = "abort"
    /\ Len(task[t].reqs) >= 2
    /\ task[t].timers = {}
    /\ inflight = {}

\* exchanges have completed in each of the four ways
ExchangeEndedInSuccess ==
  \E t \in DOMAIN task : task[t].resp.kind = "response" /\ task[t].callRes.err = NoErr
ExchangeEndedInHttpError ==
  \E t \in DOMAIN task : task[t].callRes.err.type = "Http"
ExchangeEndedInNetworkFailure ==
  \E t \in DOMAIN task : task[t].resp.kind = "neterror" /\ task[t].callRes.err = ErrNetwork

----------------------------------------------------------------------------
(* Properties of the call-tool handler (RouterSpec) *)

ToolOf(t) == normalizeToolName(task[t].tool.name)
ToolArgs(t) == task[t].tool.args

\* the handler has answered a call of an advertised tool whose arguments the
\* validation accepts
AdvertisedToolAnswered(t) ==
  /\ task[t].pc = "done"
  /\ task[t].tool.name \in Range(TOOLS)
  /\ assertToolArgs(ToolOf(t), ToolArgs(t)) = NoErr

EndsInUnknownTool(t) ==
  /\ task[t].pc = "done"
  /\ task[t].result.kind = "error"
  /\ task[t].result.err = ErrUnknownTool

\* C36: every tool name advertised in TOOLS is dispatched by the call-tool
\* handler to a client operation: called with valid arguments, no advertised
\* tool ends in the "Unknown tool" error.
C36_AdvertisedToolsAreDispatched ==
  \A t \in DOMAIN task : AdvertisedToolAnswered(t) => ~EndsInUnknownTool(t)

\* the names the handler knows are dispatched, under a prefix too
KnownToolsAreDispatched ==
  \A t \in DOMAIN task :
    (task[t].pc = "done" /\ ToolOf(t) \in Range(KNOWN_TOOL_NAMES))
      => /\ ~EndsInUnknownTool(t)
         /\ task[t].op # "none" \/ task[t].result.err = ErrToolArgs

\* comment_bug is advertised and validated, and then not known
CommentToolEndsInUnknownTool ==
  \A t \in DOMAIN task :
    (AdvertisedToolAnswered(t) /\ task[t].tool.name = comment_bug)
      => EndsInUnknownTool(t) /\ task[t].reqs = <<>>

\* the requests a tool call has sent for a step of the given kind
ToolReqs(t, kinds) ==
  {n \in 1..Len(task[t].reqs) :
     task[t].reqs[n].kind = "api" /\ task[t].reqs[n].ctx \in kinds}

\* C37: an argument declared in a tool's input schema reaches the client
\* operation: for resolve_bug and batch_resolve_my_bugs called with a
\* non-empty solution the comment sent upstream is the one derived from that
\* solution, and a productId given to get_my_bugs or batch_resolve_my_bugs
\* scopes the list request.
C37_DeclaredArgumentsReachClient ==
  \A t \in DOMAIN task :
    /\ (ToolOf(t) \in {resolve_bug, batch_resolve_my_bugs} /\ Trim(ToolArgs(t).solution) # "")
         => \A n \in ToolReqs(t, {"resolve"}) :
              task[t].reqs[n].body.comment
                = buildResolutionComment(ToolArgs(t).solution, ToolArgs(t).comment, "fixed")
    /\ (ToolOf(t) \in {get_my_bugs, batch_resolve_my_bugs} /\ IsDefined(ToolArgs(t).productId))
         => \A n \in ToolReqs(t, {"list"}) :
              task[t].reqs[n].path
                = buildProductScopedBugsPath(ToolArgs(t).productId, DefaultBugsPath)

\* the comment of a tool call does reach resolveBug
ToolCommentReachesClient ==
  \A t \in DOMAIN task :
    (ToolOf(t) \in {resolve_bug, batch_resolve_my_bugs} /\ Trim(ToolArgs(t).solution) = "")
      => \A n \in ToolReqs(t, {"resolve"}) :
           task[t].reqs[n].body.comment
             = buildResolutionComment("", ToolArgs(t).comment, "fixed")

\* the solution of a tool call is dropped: the request is sent with the
\* comment a call without a solution would have sent
ToolSolutionIsDropped ==
  \A t \in DOMAIN task :
    ToolOf(t) \in {resolve_bug, batch_resolve_my_bugs}
      => \A n \in ToolReqs(t, {"resolve"}) :
           task[t].reqs[n].body.comment
             = buildResolutionComment("", ToolArgs(t).comment, "fixed")

\* the product of a tool call is dropped: the list is asked on /bugs
ToolProductIsDropped ==
  \A t \in DOMAIN task :
    ToolOf(t) \in {get_my_bugs, batch_resolve_my_bugs}
      => \A n \in ToolReqs(t, {"list"}) : task[t].reqs[n].path = DefaultBugsPath

----------------------------------------------------------------------------
(* Properties of the path templates (PathSpec) *)

Placeholder == "{id}"

TemplateResolved(t) == task[t].op = "buildPath" /\ task[t].pc = "done"

\* the template an operation falls back to when it is given none
TemplateOf(t) ==
  IF task[t].template # <<>> THEN task[t].template
  ELSE IF task[t].kind = "detail" THEN <<"/", "bugs", "/", Placeholder>>
  ELSE <<"/", "bugs", "/", Placeholder, "/", task[t].kind>>

\* what is appended to a template with no placeholder
AppendedTo(t) ==
  IF task[t].kind = "detail" THEN <<"/", ToString(task[t].id)>>
  ELSE <<"/", ToString(task[t].id), "/", task[t].kind>>

\* s without the slashes at its end
IsStrippedOf(stripped, s) ==
  \E n \in 0..Len(s) :
    /\ stripped = SubSeq(s, 1, n)
    /\ n = 0 \/ s[n] # "/"
    /\ \A i \in (n + 1)..Len(s) : s[i] = "/"

Occurrences(s, tok) == {i \in 1..Len(s) : s[i] = tok}

\* C38: path template resolution for detail, resolve, close, activate and
\* comment: every occurrence of the {id} placeholder is replaced by the
\* stringified identifier and nothing else is changed; a template with no
\* placeholder has its trailing slashes stripped and /<id> (detail),
\* /<id>/<action> (transitions) or /<id>/comment appended; the resolved path
\* always contains the identifier.
C38_TemplateResolution ==
  \A t \in DOMAIN task :
    TemplateResolved(t) =>
      LET template == TemplateOf(t)
          resolved == task[t].resolved
          idText == ToString(task[t].id)
      IN /\ Occurrences(template, Placeholder) # {}
              => /\ Len(resolved) = Len(template)
                 /\ \A i \in 1..Len(template) :
                      resolved[i] = IF template[i] = Placeholder THEN idText
                                    ELSE template[i]
         /\ Occurrences(template, Placeholder) = {}
              => \E stripped \in {SubSeq(template, 1, n) : n \in 0..Len(template)} :
                   /\ IsStrippedOf(stripped, template)
                   /\ resolved = stripped \o AppendedTo(t)
         /\ Occurrences(resolved, idText) # {}
         /\ Occurrences(resolved, Placeholder) = {}

\* a template with two placeholders has been resolved
C38_Witness ==
  \E t \in DOMAIN task :
    /\ TemplateResolved(t)
    /\ task[t].kind = "close"
    /\ task[t].id = 2
    /\ task[t].template = <<Placeholder, "/", Placeholder>>
    /\ task[t].resolved = <<"2", "/", "2">>

\* a template with no placeholder and two slashes at its end has been resolved
TemplateWithoutPlaceholderResolved ==
  \E t \in DOMAIN task :
    /\ TemplateResolved(t)
    /\ task[t].kind = "comment"
    /\ task[t].template = <<"/", "b", "/", "/">>
    /\ task[t].resolved = <<"/", "b", "/", "1", "/", "comment">>

\* no template has been given: the default of the operation has been resolved
DefaultTemplateResolved ==
  \E t \in DOMAIN task :
    /\ TemplateResolved(t)
    /\ task[t].kind = "detail"
    /\ task[t].template = <<>>
    /\ task[t].resolved = <<"/", "bugs", "/", "1">>

====
